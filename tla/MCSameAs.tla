------------------------------ MODULE MCSameAs ------------------------------
(* An instance of SameAs for TLC: two rows of a host that state upstreams,  *)
(* two of the maker that may be meant, one of them under changing aliases.  *)
EXTENDS SameAs

CONSTANTS host, maker, publisher, h1, h2, m1, m2, dotted, hyphened, other

MCProviderOf == [m \in Models |-> IF m \in {h1, h2} THEN host ELSE maker]
MCRawId == [m \in Models |-> IF m = m1 THEN hyphened ELSE other]
MCHyphened == [n \in Names |-> IF n = dotted THEN hyphened ELSE n]

Plain(A) == [aliases |-> A, upstream |-> NoEvidence]
States(namespace, raw) ==
    [aliases |-> {}, upstream |-> [namespace |-> namespace, raw |-> raw]]

MCStatements == [m \in Models |->
    CASE m = h1 -> {States(publisher, dotted), Plain({})}
      [] m = h2 -> {States(maker, other)}
      [] m = m1 -> {Plain({})}
      [] m = m2 -> {Plain({}), Plain({dotted}), Plain({hyphened})}]

MCOpening == [m \in Models |->
    CASE m = h1 -> States(publisher, dotted)
      [] m = h2 -> States(maker, other)
      [] OTHER -> Plain({})]

MCClaims == [p \in Providers |-> IF p = maker THEN {{publisher}}
                                 ELSE {{}, {publisher}}]
=============================================================================

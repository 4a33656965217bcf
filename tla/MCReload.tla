------------------------------ MODULE MCReload ------------------------------
(***************************************************************************)
(* Instances of ProcessLayout for TLC.                                     *)
(***************************************************************************)
EXTENDS ProcessLayout

CONSTANTS u, w,    \* panels
          broken,  \* no URL
          base, d  \* directories

MCPanels == [url \in {u, w, broken, Unset} |-> IF url \in {u, w} THEN url ELSE Unset]

MCEnvironment == [url |-> Unset, node |-> Unset, machine |-> Unset, kernel |-> Unset,
                  tokens |-> {"machine"}, domain |-> FALSE]

Settings == [id |-> Unset, url |-> Unset, machine |-> 0, standalone |-> FALSE, node |-> 0,
             entries |-> <<>>, tokens |-> {}, refs |-> {}, complete |-> TRUE,
             kernel |-> Unset, custom |-> Unset, own |-> FALSE, domain |-> FALSE,
             auto |-> FALSE, port |-> 0, dir |-> Unset, certDir |-> Unset]

\* The token is given by the name of a variable.
Single(url, n) == [Settings EXCEPT !.url = url, !.node = n, !.refs = {"panel"}]

\* The token is the environment's.
Machine(url, m) == [Settings EXCEPT !.url = url, !.machine = m]

Entry(n) == [node |-> n, kernel |-> FALSE, cert |-> FALSE, dir |-> Unset, certDir |-> Unset,
             custom |-> Unset]

Many(url) == [Settings EXCEPT !.url = url, !.tokens = {"panel"}, !.entries = <<Entry(1), Entry(2)>>]

OnTop(c) == [top |-> c, instances |-> <<>>]

With(instances) ==
    [top |-> [Settings EXCEPT !.kernel = "xray", !.auto = TRUE, !.domain = TRUE],
     instances |-> instances]

\* 1 and 2 serve two instances in either order, 3 two nodes without
\* instances.  The first instances of 1 and 3 have a health port, that of 2 has none.
\* 4 is refused for an ID twice, 5 for a node twice, and 6 has an
\* URL that nothing can be named after.
MCContent ==
    << With(<<[Single(u, 1) EXCEPT !.port = 8], Machine(w, 1)>>),
       With(<<Machine(w, 1), [Single(w, 1) EXCEPT !.dir = Named(d), !.port = 9]>>),
       OnTop([Many(u) EXCEPT !.port = 9]),
       With(<<Single(u, 1), Single(u, 1)>>),
       With(<<Single(u, 1), Many(u)>>),
       OnTop(Single(broken, 1)) >>

MCServing == << {<<1, 1>>, <<2, 1>>}, {<<1, 1>>, <<2, 1>>}, {<<1, 1>>, <<1, 2>>}, {}, {}, {} >>

MCRoom == <<2, 2, 1, 0, 0, 0>>

MCHealth == <<8, 0, 9, 0, 0, 0>>

MCNodes == UNION {MCServing[v] : v \in DOMAIN MCServing}
=============================================================================

---------------------------- MODULE ProcessLayout ----------------------------
(***************************************************************************)
(* Reload with what is in the file: the contents decide what LoadRoot and  *)
(* ValidateStartupLayout refuse and which nodes a round serves, and a      *)
(* reload moves nodes from one layout to another.                          *)
(***************************************************************************)
EXTENDS Reload, StartupLayout

CONSTANTS Content,    \* of every version: the file
          PanelNodes  \* nodes a panel may assign to a machine

ASSUME ContentsDecide ==
    LET loads == {v \in Versions : LoadRoot(Content[v])}
        named == {v \in loads : NormalizeInstances(Content[v])}
        fits == {v \in named : ValidateStartupLayout(Instances(Content[v]))}
    IN  /\ Invalid = Versions \ loads
        /\ Nameless = loads \ named
        /\ Misfits = loads \ fits
        /\ \A v \in fits : /\ Serving[v] = Goroutines(Content[v])
                           /\ Room[v] = Len(Instances(Content[v]))
                           /\ Health[v] = Instances(Content[v])[1].port

\* What a goroutine p = <<instance, node>> of a layout may serve.
Served(layout, p) ==
    LET c == layout[p[1]]
    IN  IF IsMachineMode(c) THEN {ExpandMachineNode(c, n) : n \in PanelNodes}
        ELSE {ExpandNodes(c)[p[2]]}

\* The file names no directory inside another one, none for certificates, and
\* nodes have no sections of their own.
Plain(root) ==
    LET asked == Prepared(root)
    IN  \A i \in DOMAIN asked :
            /\ asked[i].dir = Unset \/ asked[i].dir[1] = "dir"
            /\ asked[i].certDir = Unset
            /\ \A k \in DOMAIN asked[i].entries :
                  ~asked[i].entries[k].kernel /\ ~asked[i].entries[k].cert

\* What p and q may serve at a time is in nobody's way.
Apart(layout, p, q) ==
    LET machine(r) == IsMachineMode(layout[r[1]])
    IN  \A x \in Served(layout, p), y \in Served(layout, q) : p # q \/ x # y =>
            /\ x.dir # y.dir
            /\ p[1] # q[1] \/ machine(p) => x.certDir # y.certDir
            /\ ~machine(p) /\ ~machine(q) => x.url # y.url \/ x.node # y.node

\* An instance that is in two files has other directories in the second.
Moved(root, root2) ==
    LET asked == Prepared(root)
        asked2 == Prepared(root2)
        layout == Instances(root)
        layout2 == Instances(root2)
    IN  \E i \in DOMAIN layout, j \in DOMAIN layout2 :
            /\ layout[i].id = layout2[j].id
            /\ asked[i].dir = asked2[j].dir /\ asked[i].certDir = asked2[j].certDir
            /\ \/ layout[i].dir # layout2[j].dir
               \/ layout[i].certDir # layout2[j].certDir

-----------------------------------------------------------------------------
(* Properties *)

\* Whatever reloads do, no two nodes that run have the same kernel directory (sing-box
\* locks a database in it), and nodes of two instances or of a machine no certificate
\* directory: pairs are written to the same two files there.  No node runs twice for one
\* spelling of its panel's URL.  "config_dir" is compared between instances only
\* (config.go:882), so the premise is that what is named in the file is plain.
NodesApart ==
    \A p, q \in {n \in Nodes : node[n] \in {"starting", "up"}} :
        Plain(Content[main.root]) => Apart(Instances(Content[main.root]), p, q)

\* A reload that keeps an instance leaves it its directories, wherever it is in the file
\* then and whatever else is added, changed or removed: certificates and
\* caches are found again.  Not between one instance and several, when a
\* directory that is not named in the file moves.
DirsStay ==
    [][LET root == Content[main.root]
           root2 == Content[main'.root]
       IN  /\ root # root2
           /\ Len(root.instances) > 1 <=> Len(root2.instances) > 1
           => ~Moved(root, root2)]_vars
=============================================================================

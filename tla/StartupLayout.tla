---------------------------- MODULE StartupLayout ----------------------------
(***************************************************************************)
(* What a configuration file asks for (internal/config/config.go): from    *)
(* the file and the environment to the instances, their IDs and their      *)
(* directories, to the nodes each instance serves, and whether they can    *)
(* live side by side.                                                      *)
(*                                                                         *)
(* Settings that no check and no directory depends on are left out; what   *)
(* they must satisfy by themselves is "complete".  A path is a tuple: a    *)
(* directory somebody named, or an entry in another directory.  Names of   *)
(* directories are spelled in one way each, and an ID that is chosen is    *)
(* not the name of a node's directory or of one for certificates.          *)
(***************************************************************************)
EXTENDS Naturals, FiniteSets, Sequences

CONSTANTS Unset,       \* a setting that is not given
          Panels,      \* of every URL as it is spelled, or Unset: the panel, or Unset
          Environment, \* the settings the environment overrides
          BaseDir      \* the directory of the configuration file

Named(d) == <<"dir", d>>

In(dir, kind, of) == <<"in", dir, kind, of>>

OrElse(setting, default) == IF setting = Unset THEN default ELSE setting

\* A file without instances is one instance by itself.
Legacy(file) == file.instances = <<>>

IsMachineMode(c) == c.machine > 0

-----------------------------------------------------------------------------
(* LoadRoot *)

\* What an instance takes from the top level.  "own" is a certificate of its
\* own, which an inherited auto_tls must not override; the directories and the
\* ID are never inherited.
InheritFrom(c, parent) ==
    LET own == c.own \/ parent.own
    IN  [c EXCEPT !.kernel = OrElse(@, parent.kernel),
                  !.custom = OrElse(@, parent.custom),
                  !.own = own,
                  !.domain = @ \/ parent.domain,
                  !.auto = @ \/ (~own /\ parent.auto)]

\* The environment overrides every instance alike.
ApplyEnvOverrides(c) ==
    [c EXCEPT !.url = OrElse(Environment.url, @),
              !.node = OrElse(Environment.node, @),
              !.machine = OrElse(Environment.machine, @),
              !.kernel = OrElse(Environment.kernel, @),
              !.tokens = @ \cup Environment.tokens,
              !.domain = @ \/ Environment.domain,
              !.auto = @ \/ Environment.domain]

\* Tokens that are given by the name of a variable.
ResolveEnvRefs(c) == [c EXCEPT !.tokens = @ \cup c.refs]

\* normalizeBaseURL has a result, or the instance needs none.
HasAutoID(c) == c.standalone \/ Panels[c.url] # Unset

\* The node IDs of an instance, each as often as it is listed.
Targets(c) ==
    IF c.entries = <<>> THEN [n \in {c.node} |-> 1]
    ELSE [n \in {c.entries[k].node : k \in DOMAIN c.entries} |->
             Cardinality({k \in DOMAIN c.entries : c.entries[k].node = n})]

\* Depends on what the instance serves, not on where it is in the file; the
\* hash in the ID is taken to tell panels apart.
AutoInstanceID(c) ==
    IF c.standalone THEN <<"standalone", Unset, <<>>>>
    ELSE IF IsMachineMode(c) THEN <<"machine", Panels[c.url], [n \in {c.machine} |-> 1]>>
    ELSE <<"node", Panels[c.url], Targets(c)>>

\* The instances before their defaults, with their IDs.
Prepared(file) ==
    IF Legacy(file) THEN <<ResolveEnvRefs(ApplyEnvOverrides(file.top))>>
    ELSE [i \in DOMAIN file.instances |->
             LET c == ResolveEnvRefs(ApplyEnvOverrides(
                          InheritFrom(file.instances[i], file.top)))
             IN  [c EXCEPT !.id = IF @ = Unset /\ HasAutoID(c) THEN AutoInstanceID(c) ELSE @]]

\* Mutant of InstanceBase: the directory is named after the position.
InstanceBase_ByPosition(file, i) ==
    IF Len(file.instances) > 1 THEN In(Named(BaseDir), "instance", i) ELSE Named(BaseDir)

\* Several instances have a directory each, named after their IDs.
InstanceBase(file, i) ==
    IF Len(file.instances) > 1 THEN In(Named(BaseDir), "instance", Prepared(file)[i].id)
    ELSE Named(BaseDir)

SetDefaultsFrom(c, base) ==
    LET dir == OrElse(c.dir, base)
    IN  [id |-> c.id, url |-> c.url, machine |-> c.machine, standalone |-> c.standalone,
         node |-> c.node, entries |-> c.entries, tokens |-> c.tokens, complete |-> c.complete,
         kernel |-> OrElse(c.kernel, "singbox"), custom |-> c.custom,
         domain |-> c.domain, auto |-> c.auto, port |-> c.port,
         dir |-> dir, certDir |-> OrElse(c.certDir, In(dir, "certs", Unset))]

Loaded(file) ==
    [i \in DOMAIN Prepared(file) |-> SetDefaultsFrom(Prepared(file)[i], InstanceBase(file, i))]

\* validate, of one instance.
Validates(c) ==
    /\ c.complete
    /\ \/ c.standalone /\ c.entries = <<>>
       \/ /\ ~c.standalone /\ IsMachineMode(c)
          /\ c.url # Unset /\ "machine" \in c.tokens /\ c.entries = <<>>
       \/ /\ ~c.standalone /\ ~IsMachineMode(c)
          /\ c.url # Unset /\ "panel" \in c.tokens
          /\ c.entries = <<>> => c.node > 0
          /\ \A k \in DOMAIN c.entries : c.entries[k].node > 0
    /\ c.kernel \in {"singbox", "xray"}
    /\ c.auto => c.domain

AssignsInstanceIDs(file) ==
    ~Legacy(file) => \A i \in DOMAIN Prepared(file) : Prepared(file)[i].id # Unset

ValidateRoot(file) ==
    LET loaded == Loaded(file)
    IN  /\ \A i \in DOMAIN loaded : Validates(loaded[i])
        /\ ~Legacy(file) => \A i, j \in DOMAIN loaded : i # j => loaded[i].id # loaded[j].id

\* LoadRoot returns no error.
LoadRoot(file) == AssignsInstanceIDs(file) /\ ValidateRoot(file)

-----------------------------------------------------------------------------
(* The instances and their nodes *)

\* NormalizeInstances returns no error; only a legacy file has no ID by now.
NormalizeInstances(file) == Legacy(file) => HasAutoID(Loaded(file)[1])

\* What it returns.
Instances(file) ==
    [i \in DOMAIN Loaded(file) |->
        LET c == Loaded(file)[i]
        IN  IF Legacy(file) THEN [c EXCEPT !.id = AutoInstanceID(c)] ELSE c]

\* Mutant of ExpandNodes: nodes have the directory of their instance.
ExpandNodes_SharedDir(c) ==
    IF c.entries = <<>>
    THEN <<[url |-> c.url, node |-> c.node, custom |-> c.custom,
            dir |-> c.dir, certDir |-> c.certDir]>>
    ELSE [k \in DOMAIN c.entries |->
             [url |-> c.url, node |-> c.entries[k].node, custom |-> c.custom,
              dir |-> c.dir, certDir |-> c.certDir]]

\* A node with a kernel section of its own has the directory that names, or
\* its instance's; one without has a directory in its instance's.  Its
\* certificate section replaces the instance's.
ExpandNodes(c) ==
    IF c.entries = <<>>
    THEN <<[url |-> c.url, node |-> c.node, custom |-> c.custom,
            dir |-> c.dir, certDir |-> c.certDir]>>
    ELSE [k \in DOMAIN c.entries |->
             LET e == c.entries[k]
                 dir == IF e.kernel THEN OrElse(e.dir, c.dir) ELSE In(c.dir, "node", e.node)
             IN  [url |-> c.url, node |-> e.node,
                  custom |-> IF e.kernel THEN OrElse(e.custom, c.custom) ELSE c.custom,
                  dir |-> dir,
                  certDir |-> IF e.cert THEN OrElse(e.certDir, In(dir, "certs", Unset))
                              ELSE c.certDir]]

\* A node that the panel assigns to the machine.
ExpandMachineNode(c, n) ==
    LET dir == In(c.dir, "node", n)
    IN  [url |-> c.url, node |-> n, custom |-> c.custom,
         dir |-> dir, certDir |-> In(dir, "certs", Unset)]

\* One goroutine for a machine, one for every other node.
Goroutines(file) ==
    UNION {{<<i, k>> : k \in DOMAIN ExpandNodes(Instances(file)[i])} : i \in DOMAIN Instances(file)}

Statics(instances) ==
    UNION {{<<i, k>> : k \in DOMAIN ExpandNodes(instances[i])} :
              i \in {j \in DOMAIN instances : ~IsMachineMode(instances[j])}}

\* ValidateStartupLayout returns no error.  A node is told by its URL as it is
\* spelled, and the nodes of machines by nothing.
ValidateStartupLayout(instances) ==
    /\ \A i, j \in DOMAIN instances :
          i # j => /\ instances[i].port > 0 => instances[i].port # instances[j].port
                   /\ instances[i].dir = instances[j].dir => instances[i].id = instances[j].id
    /\ \A i \in DOMAIN instances : IsMachineMode(instances[i]) => instances[i].custom # "missing"
    /\ LET NodeOf(p) == ExpandNodes(instances[p[1]])[p[2]]
       IN  /\ \A p \in Statics(instances) : NodeOf(p).custom # "missing"
           /\ \A p, q \in Statics(instances) :
                 p # q => <<NodeOf(p).url, NodeOf(p).node>> # <<NodeOf(q).url, NodeOf(q).node>>
=============================================================================

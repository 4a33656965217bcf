------------------------------ MODULE UserLists ------------------------------
(***************************************************************************)
(* User lists and the pure operations on them.                             *)
(*                                                                         *)
(* The program keeps a user list as a slice of UserSpec records keyed by   *)
(* ID, and compares lists by a hash of their contents sorted by ID.  Here  *)
(* a list is a function from user IDs to credentials (the UUID), with      *)
(* Absent for an ID that is not in the list: two lists are equal exactly   *)
(* when their hashes are, and the order of the slice does not matter.  A   *)
(* nil slice and an empty slice are both NoUsers (prepareUserState stores  *)
(* nil for either).  Speed and device limits are not part of this model.   *)
(***************************************************************************)

CONSTANTS UserIds,    \* user IDs the panel can assign
          Uuids,      \* credentials a user can hold
          Absent      \* "this ID is not in the list"

ASSUME AbsentIsNoUuid == Absent \notin Uuids

\* Node configurations are numbered in the order the panel issues them; NoCfg
\* is a nil configuration.
NoCfg == 0

Lists == [UserIds -> Uuids \cup {Absent}]

NoUsers == [i \in UserIds |-> Absent]

Members(list) == {i \in UserIds : list[i] # Absent}

\* service.mergeUsers: delta overlays base, keyed by ID.
Merge(base, delta) ==
    [i \in UserIds |-> IF delta[i] # Absent THEN delta[i] ELSE base[i]]

\* service.subtractUsers: only the IDs of delta count.
Subtract(base, delta) ==
    [i \in UserIds |-> IF delta[i] # Absent THEN Absent ELSE base[i]]

\* list cut down to the users whose ID is in ids
Only(list, ids) == [i \in UserIds |-> IF i \in ids THEN list[i] ELSE Absent]

\* Mutant of ToAdd: the UUID is not compared.
ToAdd_NewIdsOnly(old, new) == Members(new) \ Members(old)

\* kernel.UserDiff: a user whose UUID changed is in ToAdd but not in ToRemove.
ToAdd(old, new) == {i \in Members(new) : old[i] # new[i]}

ToRemove(old, new) == Members(old) \ Members(new)
=============================================================================

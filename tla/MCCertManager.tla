--------------------------- MODULE MCCertManager ---------------------------
(***************************************************************************)
(* Instances of CertManager for TLC.                                       *)
(***************************************************************************)
EXTENDS CertManager, TLC

CONSTANTS d1, d2, p1   \* domains, and a pair the panel can send

MCDomains == {d1, d2}

MCPems == {p1}

Mode(mode, domain, pem) == [mode |-> mode, domain |-> domain, pem |-> pem]

MCLocal == Mode("file", None, p1)

MCConfigs ==
    {Mode("acme", d, None) : d \in MCDomains} \cup {Mode("content", d, p1) : d \in MCDomains} \cup
    {Mode("self", None, None), Mode("content", None, None), Mode("none", None, None)}

MCSymmetry == Permutations(MCDomains)
=============================================================================

SPECIFICATION FairMailboxSpec
CONSTANTS
    a = a
    b = b
    Absent = Absent
    UserIds = {1}
    Uuids <- MCUuids
    MailboxInput <- MCInput
    BaseConfigs <- MCBaseConfigs
INVARIANT NoLostWakeup
PROPERTY CoalescesToLatest

SPECIFICATION MCSpec
CONSTANTS
    s1 = s1
    s2 = s2
    mta = mta
    none = none
    inbox = inbox
    trash = trash
INVARIANTS AccountsKept ChangesAudited OperationsWhole ClientsFollow RequestsExact ImapViewsAgree
PROPERTY OwnersKept
CHECK_DEADLOCK FALSE

SPECIFICATION MCSpec
CONSTANTS
    a = a
    b = b
    c = c
    x = x
    inbox = inbox
    m1 = m1
    m2 = m2
    m3 = m3
    m4 = m4
    Paths <- MCTree
    Inbox <- MCInbox
    Standard <- MCStandard
    Ids = {m1}
    Keys = {}
    Size <- MCSize
    Quota = 0
    Clock = {1}
    MaxUid = 2
    MaxValidity = 4
    MaxBatch = 1
INVARIANTS FoldersWhole PayloadBacked OrphanExplained DeliveredOnce MCQuotaHeld
PROPERTY UidsAscend
SYMMETRY MCSymmetry

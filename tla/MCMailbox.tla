------------------------------ MODULE MCMailbox ------------------------------
(***************************************************************************)
(* Two small accounts for model-checking Mailbox, in one run: account      *)
(* chooses, in the initial state, between a tree of folders (the constants *)
(* of Mailbox as the cfg gives them) and a pair of folders with more       *)
(* messages (instance M).                                                  *)
(***************************************************************************)
EXTENDS Mailbox, TLC

CONSTANTS a, b, c, x, inbox, m1, m2, m3, m4

VARIABLE account

MCInbox == <<inbox>>

\* A folder with a child, and the names they can be renamed to.
MCTree == {MCInbox, <<a>>, <<a, x>>, <<b>>, <<b, x>>}

MCStandard == {MCInbox}

MCSize == [i \in Ids |-> 1]

M == INSTANCE Mailbox WITH
       Paths <- {MCInbox, <<c>>}, Ids <- {m1, m2, m3, m4}, Keys <- {m1},
       Size <- [i \in {m1, m2, m3, m4} |-> 1], Quota <- 3,
       MaxUid <- 3, MaxValidity <- 1, MaxBatch <- 2

MCInit == \/ account = "tree" /\ Init
          \/ account = "pair" /\ M!Init

MCNext == /\ \/ account = "tree" /\ Next
             \/ account = "pair" /\ M!Next
          /\ UNCHANGED account

MCSpec == MCInit /\ [][MCNext]_<<vars, account>>

\* The two folder names, and the identifiers no delivery key names, are alike.
MCSymmetry == Permutations({a, b}) \cup Permutations({m2, m3, m4})

\* QuotaHeld of Mailbox: however messages arrive, the account stays within its
\* quota.  With the inductive invariant of MailboxProofs.  The other properties
\* name no constant that differs between the accounts and are Mailbox's own.
MCQuotaHeld == IF account = "tree" THEN QuotaHeld /\ MInv ELSE M!QuotaHeld /\ M!MInv
=============================================================================

--------------------------- MODULE MCImapSessions ---------------------------
(* Small instances of ImapSessions.                                         *)
EXTENDS ImapSessions

CONSTANTS s1, s2, mta, none, inbox, trash

TwoSessions == {s1, s2}
OneSession  == {s1}
OneFolder   == {inbox}
TwoFolders  == {inbox, trash}

(* One client reads and the other one changes the mailbox; mail arrives.    *)
Readers == {"SELECT", "FETCH", "PEEK", "LIST", "EXPUNGE", "UNSELECT",
            "LOGOUT"}
Writes  == {"STORE", "EXPUNGE", "MOVE", "CLOSE", "APPEND"}
Roles   == [s \in TwoSessions |-> IF s = s1 THEN Readers ELSE Writes]
Movers  == [s \in TwoSessions |-> IF s = s1 THEN {"SELECT", "FETCH"}
                                  ELSE Writes \ {"APPEND"}]
Reads   == [s \in OneSession |-> {"FETCH"}]

(* The reader's client may stop reading.                                    *)
Deaf    == {s1}
Hearing == {}
=============================================================================

---------------------------- MODULE FieldMigration ----------------------------
(***************************************************************************)
(* Field-level encryption at rest (src/app/utils/encryption.py) and the    *)
(* script that encrypts the rows of older versions                         *)
(* (src/scripts/migrate_plaintext_to_encrypted.py), beside an application  *)
(* that goes on writing.                                                   *)
(*                                                                         *)
(* A row is its encrypted column that is looked up by an index column, the *)
(* HMAC of its value (in tables without one, any encrypted column), and    *)
(* its e-mail address, which users have an index of as well.  The other    *)
(* columns go through the same UPDATE in the same way.  The script is one  *)
(* connection at READ COMMITTED and its own transactions; the              *)
(* application's writes are short transactions, taken as single steps.     *)
(***************************************************************************)
EXTENDS Naturals, Sequences

CONSTANTS
    Present,     \* the tables of this instance
    Rows,        \* their rows, stored or not
    TableOf,     \* the table of each row
    Keys,        \* what the column "key" may hold: numbers, addresses of handsets, ...
    Addresses,   \* e-mail addresses
    Normal,      \* what compute_hmac makes of each of both before it hashes it
    Emails,      \* the addresses a row of an older version may have, or NoValue
    Operations,  \* what may happen beside the script in this instance
    BatchSize,   \* BATCH_SIZE
    MaxWrites,   \* bound: writes of the application
    MaxCrashes   \* bound: crashes of the script

\* Tables with an index of "key".
IndexedTables == {"users", "trusted_contacts", "connected_devices", "user_device_bindings",
                  "handset_change_requests"}

\* Whether a table is committed after every BATCH_SIZE rows, or only at its end.
Batched == {"users", "trusted_contacts", "connected_devices", "location_history", "sos_alerts"}

\* The tables in the order main migrates them.
Order == <<"users", "trusted_contacts", "connected_devices", "user_device_bindings",
           "handset_change_requests", "location_history", "sos_alerts", "user_settings",
           "support_tickets">>
Tables == SelectSeq(Order, LAMBDA t : t \in Present)

NoValue == "null"
Values == Keys \cup Addresses

ASSUME MigrationAssumption ==
    /\ TableOf \in [Rows -> Present]
    /\ NoValue \notin Values
    /\ Normal \in [Values -> Values]
    /\ Emails \in [Rows -> SUBSET (Addresses \cup {NoValue})]
    /\ BatchSize \in Nat \ {0} /\ MaxWrites \in Nat /\ MaxCrashes \in Nat
    /\ Len(Tables) \in Nat

In(tables) == {r \in Rows : TableOf[r] \in tables}

Columns == {"key", "email"}
Indexed(r) == {c \in Columns :
    \/ c = "key" /\ TableOf[r] \in IndexedTables
    \/ c = "email" /\ TableOf[r] = "users"}

\* sealed counts the layers of encryption of the value; index is the normal form
\* that the index column is the hash of.
Cell == [value : Values \cup {NoValue}, sealed : 0 .. 2, index : Values \cup {NoValue}]
Row == [Columns -> Cell]

\* A column of versions before encryption, which may be NULL.
Plaintext(v) == [value |-> v, sealed |-> 0, index |-> NoValue]
Null == Plaintext(NoValue)
Absent == [c \in Columns |-> Null]

\* A column as EncryptedString binds it, with the index that is set with it.
Encrypted(v, index) == [value |-> v, sealed |-> 1, index |-> index]

VARIABLES
    db,       \* the rows as committed
    tx,       \* the rows as the script's open transaction has written them
    dirty,    \* which rows those are: they are locked
    pc,       \* the script: "idle", "select", "update", "done"
    at,       \* the table it is at, its place in Tables
    todo,     \* rows of that table fetched and not updated yet
    seen,     \* what the SELECT had fetched of them
    updated,  \* rows it has updated in that table
    crashes,  \* crashes so far
    writes,   \* writes of the application so far
    meant,    \* observed: what the application last wrote in each column
    raced,    \* observed: rows the application wrote since they were fetched
    lost,     \* observed: those of them the script has written over
    adrift    \* observed: encrypted columns of each row whose index was not kept up

script == <<tx, dirty, pc, at, todo, seen, updated>>
observed == <<meant, raced, lost, adrift>>
vars == <<db, script, crashes, writes, observed>>

TypeOK ==
    /\ db \in [Rows -> Row] /\ tx \in [Rows -> Row] /\ seen \in [Rows -> Row]
    /\ dirty \subseteq Rows /\ todo \subseteq Rows
    /\ raced \subseteq Rows /\ lost \subseteq Rows
    /\ adrift \in [Rows -> SUBSET Columns]
    /\ pc \in {"idle", "select", "update", "done"}
    /\ at \in 1 .. Len(Tables) + 1
    /\ updated \in Nat
    /\ crashes \in 0 .. MaxCrashes
    /\ writes \in 0 .. MaxWrites
    /\ meant \in [Rows -> [Columns -> Values \cup {NoValue}]]

\* No row is without a key.
Stored(r) == db[r]["key"] # Null

\* What EncryptedString answers to a read: what cannot be decrypted is None, and
\* one layer is taken off.
Read(cell) ==
    CASE cell.sealed = 0 -> NoValue
      [] cell.sealed = 1 -> cell.value
      [] OTHER -> "token"

OldRow(v, email) == [c \in Columns |-> Plaintext(IF c = "key" THEN v ELSE email)]
OldRows(r) == {Absent} \cup {OldRow(v, email) : v \in Keys, email \in Emails[r]}

\* The state after upgrade() of the schema migration: columns widened, index
\* columns added and empty.  Numbers of users were unique until then, as they
\* were written; their e-mail addresses were not.
Init ==
    /\ db \in [Rows -> UNION {OldRows(r) : r \in Rows}]
    /\ \A r \in Rows : db[r] \in OldRows(r)
    /\ \A r, s \in In({"users"}) : Stored(r) /\ db[r]["key"] = db[s]["key"] => r = s
    /\ tx = [r \in Rows |-> Absent] /\ seen = tx
    /\ dirty = {} /\ todo = {} /\ raced = {} /\ lost = {}
    /\ adrift = [r \in Rows |-> {}]
    /\ pc = "idle" /\ at = 1 /\ updated = 0
    /\ crashes = 0 /\ writes = 0
    /\ meant = [r \in Rows |-> [c \in Columns |-> db[r][c].value]]

-----------------------------------------------------------------------------
(* The script                                                              *)

Start ==
    /\ pc = "idle"
    /\ pc' = "select" /\ at' = 1
    /\ UNCHANGED <<db, tx, dirty, todo, seen, updated, crashes, writes, observed>>

\* It may be run again after it has completed.
StartAgain ==
    /\ pc = "done"
    /\ pc' = "select" /\ at' = 1
    /\ UNCHANGED <<db, tx, dirty, todo, seen, updated, crashes, writes, observed>>

Here == {r \in Rows : Stored(r) /\ TableOf[r] = Tables[at]}

\* SELECT ... FROM the table, all of it.
Select ==
    /\ pc = "select" /\ at <= Len(Tables)
    /\ pc' = "update"
    /\ todo' = Here
    /\ seen' = [r \in Rows |-> IF r \in Here THEN db[r] ELSE Absent]
    /\ updated' = 0
    /\ UNCHANGED <<db, tx, dirty, at, crashes, writes, observed>>

\* Mutant: every value is encrypted, whether it is already or not.
EncryptAlways(cell) == IF cell.value = NoValue THEN 0 ELSE cell.sealed + 1

\* Mutant: the test of is_encrypted the wrong way round.
EncryptInverted(cell) == IF cell.sealed > 0 THEN cell.sealed + 1 ELSE 0

\* _safe_encrypt and its likes: NULL, and what is_encrypted recognises, is left alone.
SafeEncrypt(cell) ==
    IF cell.value = NoValue \/ cell.sealed > 0 THEN cell.sealed ELSE 1

\* Mutant: the index is computed after the value was encrypted, and so never.
IndexTooLate(r, c) == NoValue

\* The index of what was fetched as plaintext: compute_hmac of it stripped and in
\* lower case.  None leaves the column alone.
NewIndex(r, c) ==
    IF c \in Indexed(r) /\ seen[r][c].value # NoValue /\ seen[r][c].sealed = 0
      THEN Normal[seen[r][c].value] ELSE NoValue

\* The row as the UPDATE leaves it: what was fetched, and COALESCE of each index.
Migrated(r) == [c \in Columns |->
    [value |-> seen[r][c].value, sealed |-> SafeEncrypt(seen[r][c]),
     index |-> IF NewIndex(r, c) # NoValue THEN NewIndex(r, c) ELSE db[r][c].index]]

\* Whether phone_hmac or email_hmac, unique in users, would be that of another row.
Taken(r, row) ==
    /\ TableOf[r] = "users"
    /\ \E s \in In({"users"}) \ {r}, c \in Columns :
          /\ row[c].index # NoValue
          /\ \/ db[s][c].index = row[c].index
             \/ s \in dirty /\ tx[s][c].index = row[c].index

Unlocked == dirty' = {} /\ tx' = [r \in Rows |-> Absent]

\* The commit of the rows changed.
Commit(changed, contents) ==
    /\ db' = [r \in Rows |-> IF r \in changed THEN contents[r] ELSE db[r]]
    /\ lost' = lost \cup (changed \cap raced)
    /\ Unlocked

\* Mutant: an UPDATE that concerns no row is tried again.
UpdateStored(r) ==
    LET changed == dirty \cup {r}
        contents == [tx EXCEPT ![r] = Migrated(r)]
        full == TableOf[r] \in Batched /\ (updated + 1) % BatchSize = 0
    IN /\ pc = "update" /\ r \in todo /\ Stored(r)
       /\ ~ Taken(r, Migrated(r))
       /\ todo' = todo \ {r}
       /\ updated' = updated + 1
       /\ IF full THEN Commit(changed, contents)
          ELSE dirty' = changed /\ tx' = contents /\ UNCHANGED <<db, lost>>
       /\ UNCHANGED <<pc, at, seen, crashes, writes, meant, raced, adrift>>

\* UPDATE ... WHERE id = ..., which changes nothing if the row is gone, and the
\* commit of a full batch.
UpdateRow(r) ==
    LET changed == IF Stored(r) THEN dirty \cup {r} ELSE dirty
        contents == IF Stored(r) THEN [tx EXCEPT ![r] = Migrated(r)] ELSE tx
        full == TableOf[r] \in Batched /\ (updated + 1) % BatchSize = 0
    IN /\ pc = "update" /\ r \in todo
       /\ ~ (Stored(r) /\ Taken(r, Migrated(r)))
       /\ todo' = todo \ {r}
       /\ updated' = updated + 1
       /\ IF full THEN Commit(changed, contents)
          ELSE dirty' = changed /\ tx' = contents /\ UNCHANGED <<db, lost>>
       /\ UNCHANGED <<pc, at, seen, crashes, writes, meant, raced, adrift>>

\* Mutant: the last batch is not committed.
FinishTableOpen ==
    /\ pc = "update" /\ todo = {}
    /\ Unlocked /\ UNCHANGED <<db, lost>>
    /\ pc' = "select" /\ at' = at + 1
    /\ raced' = {}
    /\ UNCHANGED <<todo, seen, updated, crashes, writes, meant, adrift>>

\* The last commit of a table.
FinishTable ==
    /\ pc = "update" /\ todo = {}
    /\ Commit(dirty, tx)
    /\ pc' = "select" /\ at' = at + 1
    /\ raced' = {}
    /\ UNCHANGED <<todo, seen, updated, crashes, writes, meant, adrift>>

\* "Migration complete"
Complete ==
    /\ pc = "select" /\ at = Len(Tables) + 1
    /\ pc' = "done"
    /\ UNCHANGED <<db, tx, dirty, at, todo, seen, updated, crashes, writes, observed>>

\* The script ends: what it has not committed is rolled back.
Ends ==
    /\ Unlocked
    /\ pc' = "idle" /\ at' = 1 /\ todo' = {} /\ updated' = 0
    /\ seen' = [r \in Rows |-> Absent]
    /\ raced' = {}
    /\ UNCHANGED <<db, writes, meant, lost, adrift>>

\* The unique index refuses an UPDATE: an uncaught exception.
Clash ==
    /\ pc = "update"
    /\ \E r \in todo : Stored(r) /\ Taken(r, Migrated(r))
    /\ Ends /\ UNCHANGED crashes

Crash ==
    /\ pc \in {"select", "update"} /\ crashes < MaxCrashes
    /\ crashes' = crashes + 1
    /\ Ends

-----------------------------------------------------------------------------
(* The application and the schema                                          *)

\* A write of the application; one of a locked row waits for the script.
Write(r, row) ==
    /\ writes < MaxWrites /\ writes' = writes + 1
    /\ r \notin dirty
    /\ db' = [db EXCEPT ![r] = row]
    /\ meant' = [meant EXCEPT ![r] = [c \in Columns |-> row[c].value]]
    /\ raced' = IF r \in todo THEN raced \cup {r} ELSE raced
    /\ lost' = lost \ {r}
    /\ UNCHANGED <<script, crashes>>

\* A row with another key, and whether its index goes with it.
WithKey(row, v, index) == [row EXCEPT !["key"] = Encrypted(v, index)]

\* Routes that create a row, whose id is a new one; none sets an e-mail address
\* of a user.  Those of users and devices look for one by the index first.
Insert(r, v) ==
    /\ "insert" \in Operations /\ ~ Stored(r) /\ r \notin todo
    /\ TableOf[r] \in {"users", "connected_devices"} =>
         \A s \in In({TableOf[r]}) :
            db[s]["key"].index # Normal[v] /\ (s \in dirty => tx[s]["key"].index # Normal[v])
    /\ Write(r, WithKey(Absent, v, IF "key" \in Indexed(r) THEN Normal[v] ELSE NoValue))
    /\ adrift' = [adrift EXCEPT ![r] = {}]

\* Tables in which the application changes the value of the index column, with
\* the index and, in update_profile, without it; and other values.
Reindexing == {"trusted_contacts", "user_device_bindings"}
Renumbering == {"users"}
Rewriting == {"sos_alerts", "user_settings"}

Update(r, v) ==
    /\ "update" \in Operations /\ Stored(r)
    /\ TableOf[r] \in Reindexing \cup Renumbering \cup Rewriting
    /\ Write(r, WithKey(db[r], v, IF TableOf[r] \in Reindexing THEN Normal[v]
                                 ELSE db[r]["key"].index))
    /\ adrift' = IF TableOf[r] \in Renumbering
                 THEN [adrift EXCEPT ![r] = @ \cup {"key"}] ELSE adrift

Delete(r) ==
    /\ "delete" \in Operations /\ Stored(r)
    /\ Write(r, Absent)
    /\ adrift' = [adrift EXCEPT ![r] = {}]

\* downgrade() and upgrade() again: the index columns come back empty.
Rollback ==
    /\ "rollback" \in Operations /\ pc \in {"idle", "done"}
    /\ writes < MaxWrites /\ writes' = writes + 1
    /\ db' = [r \in Rows |-> [c \in Columns |-> [db[r][c] EXCEPT !.index = NoValue]]]
    /\ adrift' = [r \in Rows |-> adrift[r] \cup {c \in Columns : db[r][c].sealed > 0}]
    /\ UNCHANGED <<script, crashes, meant, raced, lost>>

-----------------------------------------------------------------------------

Script == Start \/ Select \/ (\E r \in Rows : UpdateRow(r)) \/ FinishTable \/ Complete \/ Clash

Next ==
    \/ Script
    \/ Crash \/ StartAgain \/ Rollback
    \/ \E r \in Rows : Delete(r) \/ \E v \in Keys : Insert(r, v) \/ Update(r, v)

Spec == Init /\ [][Next]_vars

\* The script runs on, and is run again until it completes.
FairSpec == Spec /\ WF_vars(Script)

-----------------------------------------------------------------------------
(* Properties                                                              *)

\* "Migration complete - all rows encrypted", once: so are all columns of each
\* table that the script has passed, those that failed runs left encrypted and
\* those that the application has written meanwhile included.
PassedTablesEncrypted ==
    \A n \in 1 .. at - 1 : \A r \in In({Tables[n]}), c \in Columns :
        db[r][c].value # NoValue => db[r][c].sealed = 1

\* A value once encrypted is not plaintext again: the script writes back what it
\* fetched as plaintext only encrypted.
EncryptedIsFinal ==
    [][\A r \in Rows, c \in Columns :
          db[r][c].sealed > 0 => db'[r][c].sealed > 0 \/ db'[r] = Absent]_vars

\* What is read is what was last written, or nothing while it is plaintext: a run
\* encrypts nothing twice after a crash or after it completed, and takes back what
\* the application wrote only in a row written between the SELECT of its table
\* and its own UPDATE.
ReadsWhatWasWritten ==
    \A r \in Rows \ lost, c \in Columns :
        db[r][c].sealed > 0 => Read(db[r][c]) = meant[r][c]

\* No row is written back as it was fetched before the application changed it.
NoWriteLost == lost = {}

\* What the index of a column is when a lookup by it finds the row.
Findable(r, c) == db[r][c].value # NoValue => db[r][c].index = Normal[db[r][c].value]

\* Nothing of a batch that a crash or a refusal rolls back is missing after the
\* next run: the rows of the tables passed are found by their indexes, but for
\* those written after the SELECT, renumbered without their index, or encrypted
\* before the index column was dropped.
PassedTablesFound ==
    \A n \in 1 .. at - 1 : \A r \in In({Tables[n]}) \ lost :
        \A c \in Indexed(r) \ adrift[r] : Findable(r, c)

\* Two accounts of one number, or of one e-mail address, as compute_hmac sees it,
\* one of them still plaintext.  The database lets a number be registered anew
\* while its account is plaintext, and two accounts have one address.
Twin ==
    \E r, s \in In({"users"}), c \in Columns :
        LET old(x) == db[x][c].sealed = 0 /\ db[x][c].value # NoValue
        IN /\ r # s /\ old(r)
           /\ \/ db[s][c].index = Normal[db[r][c].value]
              \/ old(s) /\ Normal[db[s][c].value] = Normal[db[r][c].value]

\* Whatever crashes, and whatever the application writes, the script gets to its
\* end if it is run again: only a twin can stop it for good.
CompletesWithoutTwin == [](~ Twin) => <>(pc = "done")

\* It is run "ONCE", and "MUST" be: it gets to its end.
Completes == <>(pc = "done")

\* "so SQL equality lookups still work": the rows of the tables passed.
LookupsWork ==
    \A n \in 1 .. at - 1 : \A r \in In({Tables[n]}) : \A c \in Indexed(r) : Findable(r, c)
=============================================================================

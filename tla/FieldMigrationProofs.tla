------------------------- MODULE FieldMigrationProofs -------------------------
(***************************************************************************)
(* What the migration keeps of every row, for any number of rows, batches, *)
(* crashes and writes of the application.                                  *)
(***************************************************************************)
EXTENDS FieldMigration, TLAPS

\* A row that is stored has a key, and what it holds is under one layer at most.
Sound(row) ==
    \/ row = Absent
    \/ /\ row \in Row /\ row["key"].value # NoValue
       /\ \A c \in Columns : /\ row[c].sealed \in {0, 1}
                             /\ row[c].value = NoValue => row[c].sealed = 0

Sealed(row) == \A c \in Columns : row[c].value # NoValue => row[c].sealed = 1

\* The application does not write e-mail addresses, so that no race spoils them.
Kept(r) ==
    /\ Sound(db[r])
    /\ r \notin lost => \A c \in Columns : db[r][c].value = meant[r][c]
    /\ \A c \in Indexed(r) \ adrift[r] :
          (c = "email" \/ r \notin lost) /\ db[r][c].sealed = 1 =>
              db[r][c].index = Normal[db[r][c].value]

\* A row still to be updated: what was fetched of it is what it holds, unless
\* the application wrote it since.
Awaits(r) ==
    /\ pc = "update" /\ TableOf[r] = Tables[at]
    /\ Sound(seen[r]) /\ seen[r] # Absent
    /\ r \notin raced => db[r] = seen[r]
    /\ Stored(r) => db[r]["email"] = seen[r]["email"]

\* What an UPDATE may leave of a row: encrypted, and as it was but for that.
EncryptedFrom(r, row) ==
    /\ Stored(r) /\ Sound(row) /\ row # Absent /\ Sealed(row)
    /\ \A c \in Columns : c = "email" \/ r \notin raced =>
          /\ row[c].value = db[r][c].value
          /\ /\ c \in Indexed(r) \ adrift[r] /\ (c = "email" \/ r \notin lost)
             /\ row[c].value # NoValue
             => row[c].index = Normal[row[c].value]

\* A row that the open transaction has updated.
Pending(r) == pc = "update" /\ r \notin todo /\ EncryptedFrom(r, tx[r])

\* A row of the table at hand that the script is done with.
Dealt(r) ==
    pc = "update" /\ TableOf[r] = Tables[at] /\ r \notin todo \cup dirty => Sealed(db[r])

Passed(r) == \E n \in 1 .. at - 1 : TableOf[r] = Tables[n]

MigrationInv ==
    /\ TypeOK
    /\ pc = "update" => at <= Len(Tables)
    /\ \A r \in Rows :
          /\ Kept(r)
          /\ r \in todo => Awaits(r)
          /\ r \in dirty => Pending(r)
          /\ Dealt(r)
          /\ Passed(r) => Sealed(db[r])

LEMMA RowTypes ==
  /\ Columns = {"key", "email"} /\ Null \in Cell /\ Null.value = NoValue /\ Null.sealed = 0
  /\ Absent \in Row /\ \A c \in Columns : Absent[c] = Null
  /\ Sealed(Absent)
  /\ \A r : Indexed(r) \subseteq Columns
  /\ \A v \in Values \cup {NoValue} :
        Plaintext(v) \in Cell /\ Plaintext(v).value = v /\ Plaintext(v).sealed = 0
  /\ \A v \in Values, index \in Values \cup {NoValue} :
        /\ Encrypted(v, index) \in Cell /\ Encrypted(v, index).value = v
        /\ Encrypted(v, index).sealed = 1 /\ Encrypted(v, index).index = index
<1>1. \A v \in Values \cup {NoValue} :
         Plaintext(v) \in Cell /\ Plaintext(v).value = v /\ Plaintext(v).sealed = 0
  BY DEF Cell, Plaintext
<1>2. Null \in Cell /\ Null.value = NoValue /\ Null.sealed = 0
  BY <1>1 DEF Null
<1>3. Absent \in Row /\ \A c \in Columns : Absent[c] = Null
  BY <1>2 DEF Absent, Row
<1>4. \A v \in Values, index \in Values \cup {NoValue} :
        /\ Encrypted(v, index) \in Cell /\ Encrypted(v, index).value = v
        /\ Encrypted(v, index).sealed = 1 /\ Encrypted(v, index).index = index
  BY DEF Cell, Encrypted
<1> QED
  BY <1>1, <1>2, <1>3, <1>4 DEF Columns, Sealed, Indexed

\* A row is stored unless it is absent.
LEMMA StoredRows ==
  ASSUME NEW row, Sound(row)
  PROVE  /\ row \in Row
         /\ row["key"] # Null <=> row # Absent
         /\ row # Absent => row["key"].value # NoValue
BY RowTypes DEF Sound

LEMMA OldRowFacts ==
  ASSUME NEW r \in Rows, NEW row \in OldRows(r)
  PROVE  Sound(row) /\ \A c \in Columns : row[c].sealed = 0
<1>1. CASE row = Absent
  BY <1>1, RowTypes DEF Sound
<1>2. ASSUME NEW v \in Keys, NEW email \in Emails[r], row = OldRow(v, email)
      PROVE  Sound(row) /\ \A c \in Columns : row[c].sealed = 0
  <2>1. v \in Values /\ v # NoValue /\ email \in Values \cup {NoValue}
    BY MigrationAssumption DEF Values
  <2>2. /\ row = [c \in Columns |-> Plaintext(IF c = "key" THEN v ELSE email)]
        /\ \A c \in Columns : Plaintext(IF c = "key" THEN v ELSE email) \in Cell
                              /\ Plaintext(IF c = "key" THEN v ELSE email).sealed = 0
    BY <1>2, <2>1, RowTypes DEF OldRow
  <2>3. row \in Row /\ \A c \in Columns : row[c].sealed = 0
    BY <2>2 DEF Row
  <2>4. row["key"] = Plaintext(v)
    BY <2>2 DEF Columns
  <2> QED
    BY <2>1, <2>3, <2>4, RowTypes DEF Sound
<1> QED
  BY <1>1, <1>2 DEF OldRows

LEMMA MigrationInit == Init => MigrationInv
<1> SUFFICES ASSUME Init PROVE MigrationInv
  OBVIOUS
<1>1. \A r \in Rows : Sound(db[r]) /\ db[r] \in Row /\ \A c \in Columns : db[r][c].sealed = 0
  BY OldRowFacts, StoredRows DEF Init
<1>2. TypeOK
  <2>1. db \in [Rows -> Row]
    BY <1>1 DEF Init
  <2>2. meant \in [Rows -> [Columns -> Values \cup {NoValue}]]
    BY <1>1 DEF Init, Row, Cell
  <2>3. tx \in [Rows -> Row] /\ seen \in [Rows -> Row]
    BY RowTypes DEF Init
  <2>4. at \in 1 .. Len(Tables) + 1 /\ crashes \in 0 .. MaxCrashes /\ writes \in 0 .. MaxWrites
    BY MigrationAssumption DEF Init
  <2>5. adrift \in [Rows -> SUBSET Columns]
    BY DEF Init
  <2> QED
    BY <2>1, <2>2, <2>3, <2>4, <2>5 DEF Init, TypeOK
<1>3. ASSUME NEW r \in Rows PROVE Kept(r)
  <2>1. \A c \in Columns : meant[r][c] = db[r][c].value
    BY DEF Init
  <2> QED
    BY <1>1, <2>1, RowTypes DEF Kept
<1>4. \A r \in Rows : ~ Passed(r)
  BY DEF Init, Passed
<1> QED
  BY <1>2, <1>3, <1>4 DEF Init, MigrationInv, Dealt

LEMMA MigratedRow ==
  ASSUME MigrationInv, NEW r \in todo, Stored(r)
  PROVE  EncryptedFrom(r, Migrated(r)) /\ Migrated(r) \in Row
<1> DEFINE row == Migrated(r)
<1>1. /\ r \in Rows /\ Kept(r) /\ Awaits(r)
      /\ db[r] \in Row /\ seen[r] \in Row
  BY DEF MigrationInv, TypeOK
<1>2. /\ seen[r]["key"].value # NoValue /\ db[r]["email"] = seen[r]["email"]
      /\ \A c \in Columns : seen[r][c].sealed \in {0, 1} /\ seen[r][c] \in Cell /\ db[r][c] \in Cell
      /\ \A c \in Columns : seen[r][c].value = NoValue => seen[r][c].sealed = 0
  BY <1>1 DEF Awaits, Sound, Row
<1>3. ASSUME NEW c \in Columns
      PROVE  /\ row[c].value = seen[r][c].value
             /\ row[c].sealed = IF seen[r][c].value = NoValue THEN 0 ELSE 1
             /\ c \in Indexed(r) /\ seen[r][c].value # NoValue =>
                   row[c].index = IF seen[r][c].sealed = 0 THEN Normal[seen[r][c].value]
                                                           ELSE db[r][c].index
             /\ row[c] \in Cell
  <2>1. /\ seen[r][c].value \in Values \cup {NoValue} /\ db[r][c].index \in Values \cup {NoValue}
        /\ seen[r][c].value # NoValue =>
              Normal[seen[r][c].value] \in Values /\ Normal[seen[r][c].value] # NoValue
    BY <1>2, MigrationAssumption DEF Cell
  <2>2. NewIndex(r, c) = IF c \in Indexed(r) /\ seen[r][c].value # NoValue /\ seen[r][c].sealed = 0
                           THEN Normal[seen[r][c].value] ELSE NoValue
    BY DEF NewIndex
  <2>3. SafeEncrypt(seen[r][c]) = IF seen[r][c].value = NoValue THEN 0 ELSE 1
    BY <1>2 DEF SafeEncrypt
  <2>4. row[c] = [value |-> seen[r][c].value,
                  sealed |-> IF seen[r][c].value = NoValue THEN 0 ELSE 1,
                  index |-> IF NewIndex(r, c) # NoValue THEN NewIndex(r, c) ELSE db[r][c].index]
    BY <2>3 DEF Migrated
  <2>5. row[c] \in Cell
    BY <2>1, <2>2, <2>4 DEF Cell
  <2> HIDE DEF row
  <2> QED
    BY <1>2, <2>1, <2>2, <2>4, <2>5
<1>4. row \in Row
  BY <1>3 DEF Migrated, Row
<1>5. "key" \in Columns /\ "email" \in Columns /\ Indexed(r) \subseteq Columns
  BY RowTypes
<1>6. row = Migrated(r)
  OBVIOUS
<1> HIDE DEF row
<1>7. Sound(row) /\ row # Absent /\ Sealed(row)
  BY <1>2, <1>3, <1>4, <1>5, RowTypes DEF Sound, Sealed
<1>8. ASSUME NEW c \in Columns, c = "email" \/ r \notin raced
      PROVE  /\ row[c].value = db[r][c].value
             /\ /\ c \in Indexed(r) \ adrift[r] /\ (c = "email" \/ r \notin lost)
                /\ row[c].value # NoValue
                => row[c].index = Normal[row[c].value]
  <2>1. db[r][c] = seen[r][c]
    BY <1>1, <1>2, <1>8 DEF Awaits
  <2> QED
    BY <1>1, <1>2, <1>3, <2>1 DEF Kept
<1> QED
  BY <1>4, <1>6, <1>7, <1>8 DEF EncryptedFrom

\* A commit of rows so encrypted keeps of every row what is promised.
LEMMA CommitKeeps ==
  ASSUME MigrationInv, NEW changed \in SUBSET Rows, NEW contents \in [Rows -> Row],
         \A r \in changed : EncryptedFrom(r, contents[r]),
         Commit(changed, contents), UNCHANGED <<meant, adrift>>
  PROVE  /\ db' \in [Rows -> Row] /\ tx' \in [Rows -> Row]
         /\ dirty' = {} /\ lost' \subseteq Rows
         /\ \A r \in Rows :
               /\ Kept(r)' /\ Stored(r)' = Stored(r)
               /\ r \in changed => Sealed(db'[r])
               /\ r \notin changed => db'[r] = db[r]
               /\ \A c \in Columns : db[r][c].sealed > 0 => db'[r][c].sealed > 0
<1> USE DEF MigrationInv
<1>1. /\ db' = [r \in Rows |-> IF r \in changed THEN contents[r] ELSE db[r]]
      /\ lost' = lost \cup (changed \cap raced)
      /\ dirty' = {} /\ tx' = [r \in Rows |-> Absent]
  BY DEF Commit, Unlocked
<1>2. db' \in [Rows -> Row] /\ tx' \in [Rows -> Row] /\ lost' \subseteq Rows
  BY <1>1, RowTypes DEF TypeOK
<1> SUFFICES ASSUME NEW r \in Rows
             PROVE  /\ Kept(r)' /\ Stored(r)' = Stored(r)
                    /\ r \in changed => Sealed(db'[r])
                    /\ r \notin changed => db'[r] = db[r]
                    /\ \A c \in Columns : db[r][c].sealed > 0 => db'[r][c].sealed > 0
  BY <1>1, <1>2
<1>3. CASE r \in changed
  <2> DEFINE row == contents[r]
  <2>1. /\ db'[r] = row /\ EncryptedFrom(r, row)
        /\ r \in lost' <=> r \in lost \/ r \in raced
    BY <1>1, <1>3
  <2> HIDE DEF row
  <2>2. Stored(r)' /\ Stored(r)
    BY <2>1, StoredRows DEF EncryptedFrom, Stored
  <2>3. /\ Sound(row) /\ Sealed(row) /\ row # Absent /\ Indexed(r) \subseteq Columns
        /\ \A c \in Columns : row[c].sealed = 1 => row[c].value # NoValue
        /\ Sound(db[r])
    BY <2>1, RowTypes DEF EncryptedFrom, Sound, Kept
  <2>4. Kept(r)'
    <3>1. r \notin lost' => \A c \in Columns : row[c].value = meant[r][c]
      BY <2>1 DEF EncryptedFrom, Kept
    <3>2. \A c \in Indexed(r) \ adrift[r] :
             (c = "email" \/ r \notin lost') /\ row[c].sealed = 1 =>
                 row[c].index = Normal[row[c].value]
      BY <2>1, <2>3 DEF EncryptedFrom
    <3> QED
      BY <2>1, <2>3, <3>1, <3>2 DEF Kept, Indexed
  <2>5. ASSUME NEW c \in Columns, db[r][c].sealed > 0 PROVE row[c].sealed > 0
    <3>1. db[r][c].value # NoValue
      BY <2>3, <2>5, RowTypes DEF Sound
    <3>2. row[c].value # NoValue
      BY <2>1, <2>3, <3>1, StoredRows, RowTypes DEF EncryptedFrom
    <3> QED
      BY <2>3, <3>2 DEF Sealed
  <2> QED
    BY <1>3, <2>1, <2>2, <2>3, <2>4, <2>5
<1>4. CASE r \notin changed
  <2>1. db'[r] = db[r] /\ (r \in lost' <=> r \in lost)
    BY <1>1, <1>4
  <2> QED
    BY <1>4, <2>1 DEF Kept, Stored, Indexed
<1> QED
  BY <1>3, <1>4

LEMMA WriteKeeps ==
  ASSUME MigrationInv, NEW r \in Rows, NEW row \in Row, Write(r, row),
         adrift' \in [Rows -> SUBSET Columns],
         \A s \in Rows : s # r => adrift'[s] = adrift[s],
         row = Absent \/ /\ row["key"].value \in Values /\ row["key"].sealed = 1
                         /\ row["email"] = db[r]["email"]
                         /\ adrift[r] \subseteq adrift'[r] \/ ~ Stored(r),
         ~ Stored(r) => r \notin todo,
         /\ "key" \in Indexed(r) \ adrift'[r] /\ row # Absent
         => row["key"].index = Normal[row["key"].value]
  PROVE  MigrationInv'
<1> USE DEF MigrationInv
<1>1. /\ writes' \in 0 .. MaxWrites /\ r \notin dirty
      /\ db' = [db EXCEPT ![r] = row]
      /\ meant' = [meant EXCEPT ![r] = [c \in Columns |-> row[c].value]]
      /\ raced' = (IF r \in todo THEN raced \cup {r} ELSE raced)
      /\ lost' = lost \ {r}
      /\ UNCHANGED <<tx, dirty, pc, at, todo, seen, updated, crashes>>
  BY MigrationAssumption DEF Write, script, TypeOK
<1>2. TypeOK'
  <2>1. [c \in Columns |-> row[c].value] \in [Columns -> Values \cup {NoValue}]
    BY DEF Row, Cell
  <2>2. db' \in [Rows -> Row] /\ meant' \in [Rows -> [Columns -> Values \cup {NoValue}]]
    BY <1>1, <2>1 DEF TypeOK
  <2> QED
    BY <1>1, <2>2 DEF TypeOK
<1>3. /\ db'[r] = row /\ \A c \in Columns : meant'[r][c] = row[c].value
      /\ \A s \in Rows : s # r => db'[s] = db[s] /\ meant'[s] = meant[s]
  BY <1>1 DEF TypeOK
<1>4. /\ Columns = {"key", "email"} /\ Sound(db[r])
      /\ row # Absent => row["key"].value # NoValue /\ db[r]["email"].sealed \in {0, 1}
                         /\ (db[r]["email"].value = NoValue => db[r]["email"].sealed = 0)
  BY RowTypes, MigrationAssumption DEF Kept, Sound
<1>5. Sound(row)
  BY <1>4 DEF Sound
<1>6. Sealed(db[r]) => Sealed(row)
  BY <1>4, RowTypes DEF Sealed
<1>7. Kept(r)'
  <2>1. ASSUME row # Absent, "email" \in Indexed(r) \ adrift'[r], row["email"].sealed = 1
        PROVE  row["email"].index = Normal[row["email"].value]
    <3>1. Stored(r)
      BY <1>4, <2>1, StoredRows, RowTypes DEF Stored
    <3> QED
      BY <2>1, <3>1 DEF Kept
  <2>2. \A c \in Indexed(r) \ adrift'[r] :
           row[c].sealed = 1 => row[c].index = Normal[row[c].value]
    BY <1>4, <2>1, RowTypes
  <2> QED
    BY <1>3, <1>5, <2>2 DEF Kept, Indexed
<1>8. ASSUME NEW s \in Rows
      PROVE  /\ Kept(s)' /\ (s \in todo => Awaits(s)') /\ (s \in dirty => Pending(s)')
             /\ Dealt(s)' /\ (Passed(s)' => Sealed(db'[s]))
  <2>1. CASE s = r
    <3>1. r \in todo => Awaits(r)'
      <4>1. r \in todo => Stored(r)
        OBVIOUS
      <4>2. row["key"] # Null => row # Absent
        BY <1>4, RowTypes
      <4> QED
        BY <1>1, <1>3, <4>1, <4>2 DEF Awaits, Stored
    <3>2. Dealt(r)'
      BY <1>1, <1>3, <1>6 DEF Dealt
    <3>3. Passed(r)' <=> Passed(r)
      BY <1>1 DEF Passed
    <3> QED
      BY <1>1, <1>3, <1>6, <1>7, <2>1, <3>1, <3>2, <3>3
  <2>2. CASE s # r
    <3>1. /\ db'[s] = db[s] /\ meant'[s] = meant[s] /\ adrift'[s] = adrift[s]
          /\ s \in lost' <=> s \in lost
          /\ s \in raced' <=> s \in raced
      BY <1>1, <1>3, <2>2
    <3>2. Kept(s)' /\ (Stored(s)' <=> Stored(s)) /\ Dealt(s)'
      BY <1>1, <3>1 DEF Kept, Stored, Dealt, Indexed
    <3>3. (s \in todo => Awaits(s)') /\ (s \in dirty => Pending(s)')
      BY <1>1, <3>1 DEF Awaits, Pending, EncryptedFrom, Stored, Indexed
    <3>4. Passed(s)' <=> Passed(s)
      BY <1>1 DEF Passed
    <3> QED
      BY <1>1, <3>1, <3>2, <3>3, <3>4
  <2> QED
    BY <2>1, <2>2
<1> QED
  BY <1>1, <1>2, <1>8

LEMMA MigrationStep == MigrationInv /\ [Next]_vars => MigrationInv'
<1> SUFFICES ASSUME MigrationInv, [Next]_vars PROVE MigrationInv'
  OBVIOUS
<1> USE DEF MigrationInv
<1>0. pc # "update" => todo = {} /\ dirty = {}
  BY DEF Awaits, Pending, TypeOK
<1>1. ASSUME Start \/ StartAgain \/ Complete PROVE MigrationInv'
  <2>1. /\ todo = {} /\ dirty = {} /\ pc' # "update" /\ pc' \in {"select", "done"}
        /\ at' = 1 \/ at' = at
        /\ UNCHANGED <<db, tx, dirty, todo, seen, updated, crashes, writes, observed>>
    BY <1>0, <1>1 DEF Start, StartAgain, Complete
  <2>2. TypeOK'
    BY <2>1, MigrationAssumption DEF TypeOK, observed
  <2>3. ASSUME NEW r \in Rows
        PROVE  Kept(r)' /\ Dealt(r)' /\ (Passed(r)' => Sealed(db'[r]))
    <3>1. Passed(r)' => Passed(r)
      BY <2>1 DEF Passed
    <3>2. Kept(r)' /\ Dealt(r)' /\ db' = db
      BY <2>1 DEF Kept, Dealt, Indexed, observed
    <3> QED
      BY <3>1, <3>2
  <2> QED
    BY <2>1, <2>2, <2>3
<1>2. ASSUME Select PROVE MigrationInv'
  <2>1. /\ dirty = {} /\ pc' = "update" /\ at <= Len(Tables) /\ at' = at
        /\ todo' = Here /\ seen' = [r \in Rows |-> IF r \in Here THEN db[r] ELSE Absent]
        /\ updated' = 0
        /\ UNCHANGED <<db, tx, dirty, crashes, writes, observed>>
    BY <1>0, <1>2 DEF Select
  <2>2. TypeOK'
    <3>1. Here \subseteq Rows /\ seen' \in [Rows -> Row]
      BY <2>1, RowTypes DEF Here, TypeOK
    <3> QED
      BY <2>1, <3>1 DEF TypeOK, observed
  <2>3. ASSUME NEW r \in Rows
        PROVE  /\ Kept(r)' /\ (r \in todo' => Awaits(r)') /\ Dealt(r)'
               /\ (Passed(r)' => Sealed(db'[r]))
    <3>1. Kept(r)' /\ db' = db /\ (Passed(r)' <=> Passed(r)) /\ (Stored(r)' <=> Stored(r))
      BY <2>1 DEF Kept, Passed, Stored, Indexed, observed
    <3>2. Sound(db[r]) /\ (Stored(r) <=> db[r] # Absent)
      BY StoredRows DEF Kept, Stored
    <3>3. r \in todo' => Awaits(r)'
      BY <2>1, <3>2 DEF Awaits, Here
    <3>4. Dealt(r)'
      BY <2>1, <3>1, <3>2, RowTypes DEF Dealt, Here
    <3> QED
      BY <3>1, <3>3, <3>4
  <2> QED
    BY <2>1, <2>2, <2>3
<1>3. ASSUME NEW r \in Rows, UpdateRow(r) PROVE MigrationInv'
  <2> DEFINE changed == IF Stored(r) THEN dirty \cup {r} ELSE dirty
             contents == IF Stored(r) THEN [tx EXCEPT ![r] = Migrated(r)] ELSE tx
  <2>1. /\ pc = "update" /\ r \in todo /\ todo' = todo \ {r} /\ updated' = updated + 1
        /\ UNCHANGED <<pc, at, seen, crashes, writes, meant, raced, adrift>>
        /\ \/ Commit(changed, contents)
           \/ dirty' = changed /\ tx' = contents /\ UNCHANGED <<db, lost>>
    BY <1>3 DEF UpdateRow
  <2>2. /\ changed \in SUBSET Rows /\ contents \in [Rows -> Row]
        /\ \A s \in Rows : s # r => contents[s] = tx[s]
        /\ Stored(r) => contents[r] = Migrated(r)
        /\ changed \subseteq dirty \cup {r} /\ dirty \subseteq changed
        /\ r \in changed <=> Stored(r)
    <3>1. r \notin dirty
      BY <2>1 DEF Pending
    <3> QED
      BY <2>1, <3>1, MigratedRow DEF TypeOK
  <2>3. \A s \in changed : EncryptedFrom(s, contents[s])
    <3> SUFFICES ASSUME NEW s \in changed PROVE EncryptedFrom(s, contents[s])
      OBVIOUS
    <3>1. CASE s = r
      BY <2>1, <2>2, <3>1, MigratedRow
    <3>2. CASE s # r
      BY <2>1, <2>2, <3>2 DEF Pending, TypeOK
    <3> QED
      BY <3>1, <3>2
  <2> HIDE DEF changed, contents
  <2>4. CASE Commit(changed, contents)
    <3>1. /\ db' \in [Rows -> Row] /\ tx' \in [Rows -> Row]
          /\ dirty' = {} /\ lost' \subseteq Rows
          /\ \A s \in Rows :
                /\ Kept(s)' /\ Stored(s)' = Stored(s)
                /\ s \in changed => Sealed(db'[s])
                /\ s \notin changed => db'[s] = db[s]
                /\ \A c \in Columns : db[s][c].sealed > 0 => db'[s][c].sealed > 0
      BY <2>1, <2>2, <2>3, <2>4, CommitKeeps
    <3>2. TypeOK'
      BY <2>1, <3>1 DEF TypeOK
    <3>3. ASSUME NEW s \in Rows
          PROVE  /\ s \in todo' => Awaits(s)'
                 /\ Dealt(s)' /\ (Passed(s)' => Sealed(db'[s]))
      <4>1. s \in todo' => Awaits(s)'
        <5>1. s \in todo' => s \notin changed /\ s \in todo
          BY <2>1, <2>2 DEF Pending
        <5> QED
          BY <2>1, <3>1, <5>1 DEF Awaits, Stored
      <4>2. Passed(s)' <=> Passed(s)
        BY <2>1 DEF Passed
      <4>3. Sealed(db[s]) => Sealed(db'[s])
        BY <3>1
      <4>4. r \notin changed => Sealed(db[r])
        <5>1. Sound(db[r]) /\ (r \notin changed => db[r] = Absent)
          BY <2>2, StoredRows DEF Kept, Stored
        <5> QED
          BY <5>1, RowTypes
      <4>5. Dealt(s)'
        BY <2>1, <2>2, <3>1, <4>3, <4>4 DEF Dealt
      <4> QED
        BY <4>1, <4>2, <4>3, <4>5
    <3> QED
      BY <2>1, <3>1, <3>2, <3>3
  <2>5. CASE dirty' = changed /\ tx' = contents /\ UNCHANGED <<db, lost>>
    <3>1. TypeOK'
      BY <2>1, <2>2, <2>5 DEF TypeOK
    <3>2. ASSUME NEW s \in Rows
          PROVE  /\ Kept(s)' /\ (s \in todo' => Awaits(s)')
                 /\ Dealt(s)' /\ (Passed(s)' => Sealed(db'[s]))
      <4>1. Kept(s)' /\ (Passed(s)' <=> Passed(s)) /\ (Stored(s)' <=> Stored(s))
        BY <2>1, <2>5 DEF Kept, Passed, Stored, Indexed
      <4>2. s \in todo' => Awaits(s)'
        BY <2>1, <2>5 DEF Awaits, Stored
      <4>3. Dealt(s)'
        <5>1. Sound(db[r]) /\ (r \notin changed => db[r] = Absent)
          BY <2>2, StoredRows DEF Kept, Stored
        <5>2. r \notin changed => Sealed(db[r])
          BY <5>1, RowTypes
        <5> QED
          BY <2>1, <2>2, <2>5, <5>2 DEF Dealt
      <4> QED
        BY <2>5, <4>1, <4>2, <4>3
    <3>3. ASSUME NEW s \in dirty' PROVE Pending(s)'
      <4>1. s \in Rows /\ EncryptedFrom(s, contents[s]) /\ s \notin todo'
        BY <2>1, <2>2, <2>3, <2>5, <3>3 DEF Pending
      <4> QED
        BY <2>1, <2>5, <4>1 DEF Pending, EncryptedFrom, Stored, Indexed
    <3> QED
      BY <2>1, <3>1, <3>2, <3>3
  <2> QED
    BY <2>1, <2>4, <2>5
<1>4. ASSUME FinishTable PROVE MigrationInv'
  <2>1. /\ pc = "update" /\ todo = {} /\ todo' = {} /\ raced' = {} /\ Commit(dirty, tx)
        /\ pc' = "select" /\ at' = at + 1 /\ at <= Len(Tables)
        /\ UNCHANGED <<seen, updated, crashes, writes, meant, adrift>>
    BY <1>4 DEF FinishTable
  <2>2. /\ db' \in [Rows -> Row] /\ tx' \in [Rows -> Row]
        /\ dirty' = {} /\ lost' \subseteq Rows
        /\ \A s \in Rows :
              /\ Kept(s)' /\ Stored(s)' = Stored(s)
              /\ s \in dirty => Sealed(db'[s])
              /\ s \notin dirty => db'[s] = db[s]
              /\ \A c \in Columns : db[s][c].sealed > 0 => db'[s][c].sealed > 0
    <3>1. \A r \in dirty : EncryptedFrom(r, tx[r])
      BY DEF Pending, TypeOK
    <3> QED
      BY <2>1, <3>1, CommitKeeps DEF TypeOK
  <2>3. TypeOK'
    BY <2>1, <2>2, MigrationAssumption DEF TypeOK
  <2>4. ASSUME NEW s \in Rows
        PROVE  Dealt(s)' /\ (Passed(s)' => Sealed(db'[s]))
    <3>1. Dealt(s)'
      BY <2>1 DEF Dealt
    <3>2. Passed(s)' => Passed(s) \/ TableOf[s] = Tables[at]
      <4>1. at \in Nat /\ \A n \in 1 .. at' - 1 : n \in 1 .. at - 1 \/ n = at
        BY <2>1, MigrationAssumption DEF TypeOK
      <4> QED
        BY <4>1 DEF Passed
    <3>3. CASE s \in dirty
      BY <2>2, <3>1, <3>3
    <3>4. CASE s \notin dirty
      BY <2>1, <2>2, <3>1, <3>2, <3>4 DEF Dealt
    <3> QED
      BY <3>3, <3>4
  <2> QED
    BY <2>1, <2>2, <2>3, <2>4
<1>5. ASSUME Clash \/ Crash PROVE MigrationInv'
  <2>1. /\ dirty' = {} /\ todo' = {} /\ raced' = {} /\ pc' = "idle" /\ at' = 1 /\ updated' = 0
        /\ tx' = [r \in Rows |-> Absent] /\ seen' = [r \in Rows |-> Absent]
        /\ crashes' \in 0 .. MaxCrashes
        /\ UNCHANGED <<db, writes, meant, lost, adrift>>
    BY <1>5, MigrationAssumption DEF Clash, Crash, Ends, Unlocked, TypeOK
  <2>2. TypeOK'
    BY <2>1, RowTypes, MigrationAssumption DEF TypeOK
  <2>3. ASSUME NEW r \in Rows PROVE Kept(r)' /\ Dealt(r)' /\ ~ Passed(r)'
    BY <2>1 DEF Kept, Dealt, Passed, Indexed
  <2> QED
    BY <2>1, <2>2, <2>3
<1>6. ASSUME NEW r \in Rows, NEW v \in Keys, Insert(r, v) PROVE MigrationInv'
  <2> DEFINE index == IF "key" \in Indexed(r) THEN Normal[v] ELSE NoValue
             row == WithKey(Absent, v, index)
  <2>1. /\ Write(r, row) /\ ~ Stored(r) /\ r \notin todo
        /\ adrift' = [adrift EXCEPT ![r] = {}]
    BY <1>6 DEF Insert
  <2>2. v \in Values /\ index \in Values \cup {NoValue} /\ db[r] = Absent
    <3>1. Sound(db[r])
      BY DEF Kept
    <3> QED
      BY <2>1, <3>1, StoredRows, MigrationAssumption DEF Stored, Values
  <2>3. /\ row \in Row /\ row["key"].value = v /\ row["key"].sealed = 1
        /\ row["key"].index = index /\ row["email"] = db[r]["email"]
    BY <2>2, RowTypes DEF WithKey, Row
  <2>4. adrift' \in [Rows -> SUBSET Columns] /\ \A s \in Rows : s # r => adrift'[s] = adrift[s]
    BY <2>1 DEF TypeOK
  <2>5. "key" \in Indexed(r) => index = Normal[v]
    OBVIOUS
  <2> HIDE DEF row, index
  <2> QED
    BY <2>1, <2>2, <2>3, <2>4, <2>5, WriteKeeps
<1>7. ASSUME NEW r \in Rows, NEW v \in Keys, Update(r, v) PROVE MigrationInv'
  <2> DEFINE index == IF TableOf[r] \in Reindexing THEN Normal[v] ELSE db[r]["key"].index
             row == WithKey(db[r], v, index)
  <2>1. /\ Write(r, row) /\ Stored(r)
        /\ TableOf[r] \in Reindexing \cup Renumbering \cup Rewriting
        /\ adrift' = IF TableOf[r] \in Renumbering
                       THEN [adrift EXCEPT ![r] = @ \cup {"key"}] ELSE adrift
    BY <1>7 DEF Update
  <2>2. v \in Values /\ index \in Values \cup {NoValue} /\ db[r] \in Row
    BY MigrationAssumption, RowTypes DEF TypeOK, Row, Cell, Values
  <2>3. /\ row \in Row /\ row["key"].value = v /\ row["key"].sealed = 1
        /\ row["key"].index = index /\ row["email"] = db[r]["email"]
    BY <2>2, RowTypes DEF WithKey, Row
  <2>4. /\ adrift' \in [Rows -> SUBSET Columns] /\ adrift[r] \subseteq adrift'[r]
        /\ \A s \in Rows : s # r => adrift'[s] = adrift[s]
        /\ TableOf[r] \in Renumbering => "key" \in adrift'[r]
    BY <2>1, RowTypes DEF TypeOK
  <2>5. "key" \in Indexed(r) \ adrift'[r] => index = Normal[v]
    BY <2>1, <2>4 DEF Indexed, IndexedTables, Renumbering, Reindexing, Rewriting
  <2> HIDE DEF row, index
  <2> QED
    BY <2>1, <2>2, <2>3, <2>4, <2>5, WriteKeeps
<1>8. ASSUME NEW r \in Rows, Delete(r) PROVE MigrationInv'
  <2>1. Write(r, Absent) /\ Stored(r) /\ adrift' = [adrift EXCEPT ![r] = {}]
    BY <1>8 DEF Delete
  <2>2. /\ adrift' \in [Rows -> SUBSET Columns] /\ Absent \in Row
        /\ \A s \in Rows : s # r => adrift'[s] = adrift[s]
    BY <2>1, RowTypes DEF TypeOK
  <2> QED
    BY <2>1, <2>2, WriteKeeps
<1>9. ASSUME Rollback PROVE MigrationInv'
  <2>1. /\ todo = {} /\ dirty = {} /\ pc # "update"
        /\ writes' \in 0 .. MaxWrites
        /\ db' = [r \in Rows |-> [c \in Columns |-> [db[r][c] EXCEPT !.index = NoValue]]]
        /\ adrift' = [r \in Rows |-> adrift[r] \cup {c \in Columns : db[r][c].sealed > 0}]
        /\ UNCHANGED <<tx, dirty, pc, at, todo, seen, updated, crashes, meant, raced, lost>>
    BY <1>0, <1>9, MigrationAssumption DEF Rollback, script, TypeOK
  <2>2. ASSUME NEW r \in Rows
        PROVE  /\ db'[r] \in Row
               /\ \A c \in Columns : /\ db'[r][c].value = db[r][c].value
                                     /\ db'[r][c].sealed = db[r][c].sealed
                                     /\ db'[r][c].index = NoValue
               /\ \A c \in Columns : db[r][c].sealed = 1 => c \in adrift'[r]
               /\ adrift'[r] \subseteq Columns
    <3>1. /\ db'[r] = [c \in Columns |-> [db[r][c] EXCEPT !.index = NoValue]]
          /\ \A c \in Columns : db[r][c] \in Cell
          /\ adrift'[r] = adrift[r] \cup {c \in Columns : db[r][c].sealed > 0}
      BY <2>1 DEF TypeOK, Row
    <3>2. adrift'[r] \subseteq Columns /\ \A c \in Columns : db[r][c].sealed = 1 => c \in adrift'[r]
      BY <3>1 DEF TypeOK
    <3>3. ASSUME NEW c \in Columns
          PROVE  /\ db'[r][c] \in Cell /\ db'[r][c].value = db[r][c].value
                 /\ db'[r][c].sealed = db[r][c].sealed /\ db'[r][c].index = NoValue
      BY <3>1 DEF Cell
    <3> QED
      BY <3>1, <3>2, <3>3 DEF Row
  <2>3. TypeOK'
    <3>1. db' \in [Rows -> Row] /\ adrift' \in [Rows -> SUBSET Columns]
      BY <2>1, <2>2
    <3> QED
      BY <2>1, <3>1 DEF TypeOK
  <2>4. ASSUME NEW r \in Rows
        PROVE  Kept(r)' /\ Dealt(r)' /\ (Passed(r)' => Sealed(db'[r]))
    <3>1. Sound(db[r]) /\ Columns = {"key", "email"} /\ Indexed(r) \subseteq Columns
      BY RowTypes DEF Kept
    <3>2. Sound(db'[r])
      <4>1. CASE db[r] = Absent
        <5>1. \A c \in Columns : db'[r][c] = Null
          <6> SUFFICES ASSUME NEW c \in Columns PROVE db'[r][c] = Null
            OBVIOUS
          <6>1. db'[r][c] = [db[r][c] EXCEPT !.index = NoValue] /\ db[r][c] = Null
            BY <2>1, <4>1, RowTypes
          <6> QED
            BY <6>1 DEF Null, Plaintext
        <5>2. db'[r] = Absent
          BY <2>2, <5>1 DEF Absent, Row
        <5> QED
          BY <5>2 DEF Sound
      <4>2. CASE db[r] # Absent
        BY <2>2, <3>1, <4>2 DEF Sound
      <4> QED
        BY <4>1, <4>2
    <3>3. Kept(r)'
      <4>1. r \notin lost => \A c \in Columns : db'[r][c].value = meant[r][c]
        BY <2>2 DEF Kept
      <4>2. \A c \in Indexed(r) \ adrift'[r] : db'[r][c].sealed # 1
        BY <2>2, <3>1
      <4> QED
        BY <2>1, <3>2, <4>1, <4>2 DEF Kept, Indexed
    <3>4. Sealed(db[r]) => Sealed(db'[r])
      BY <2>2 DEF Sealed
    <3>5. Passed(r)' <=> Passed(r)
      BY <2>1 DEF Passed
    <3> QED
      BY <2>1, <3>3, <3>4, <3>5 DEF Dealt
  <2> QED
    BY <2>1, <2>3, <2>4
<1>10. CASE UNCHANGED vars
  BY <1>10 DEF vars, script, observed, TypeOK, Kept, Awaits, Pending, EncryptedFrom, Dealt, Passed,
      Stored, Indexed
<1> QED
  BY <1>1, <1>2, <1>3, <1>4, <1>5, <1>6, <1>7, <1>8, <1>9, <1>10 DEF Next, Script

-----------------------------------------------------------------------------

THEOREM MigrationInvariant == Spec => []MigrationInv
<1> QED
  BY MigrationInit, MigrationStep, PTL DEF Spec

\* Type correctness: the places and rows the script can be at.
THEOREM MigrationTypes == Spec => []TypeOK
<1>1. MigrationInv => TypeOK
  BY DEF MigrationInv
<1> QED
  BY <1>1, MigrationInvariant, PTL

\* "Migration complete - all rows encrypted" is true of every table passed, once.
THEOREM NothingLeftPlain == Spec => []PassedTablesEncrypted
<1>1. MigrationInv => PassedTablesEncrypted
  BY DEF MigrationInv, PassedTablesEncrypted, Passed, In, Sealed
<1> QED
  BY <1>1, MigrationInvariant, PTL

\* EncryptedString reads back what was written, but in the rows a run raced with.
THEOREM ReadsBack == Spec => []ReadsWhatWasWritten
<1>1. MigrationInv => ReadsWhatWasWritten
  <2> SUFFICES ASSUME MigrationInv, NEW r \in Rows \ lost, NEW c \in Columns,
                      db[r][c].sealed > 0
               PROVE  Read(db[r][c]) = meant[r][c]
    BY DEF ReadsWhatWasWritten
  <2>1. Sound(db[r]) /\ db[r][c].value = meant[r][c]
    BY DEF MigrationInv, Kept
  <2>2. db[r][c].sealed = 1
    BY <2>1, RowTypes DEF Sound
  <2> QED
    BY <2>1, <2>2 DEF Read
<1> QED
  BY <1>1, MigrationInvariant, PTL

\* Lookups by phone_hmac and its like find the rows of the tables passed.
THEOREM PassedAreFound == Spec => []PassedTablesFound
<1>1. MigrationInv => PassedTablesFound
  <2> SUFFICES ASSUME MigrationInv, NEW n \in 1 .. at - 1, NEW r \in In({Tables[n]}) \ lost,
                      NEW c \in Indexed(r) \ adrift[r], db[r][c].value # NoValue
               PROVE  db[r][c].index = Normal[db[r][c].value]
    BY DEF PassedTablesFound, Findable
  <2>1. r \in Rows /\ c \in Columns /\ Passed(r)
    BY RowTypes DEF In, Passed
  <2>2. db[r][c].sealed = 1
    BY <2>1 DEF MigrationInv, Sealed
  <2> QED
    BY <2>1, <2>2 DEF MigrationInv, Kept
<1> QED
  BY <1>1, MigrationInvariant, PTL

\* No run turns ciphertext into plaintext again, neither by writing back what it
\* had fetched nor by being rolled back.
THEOREM NeverPlainAgain == Spec => EncryptedIsFinal
<1> DEFINE Final == \A r \in Rows, c \in Columns :
                       db[r][c].sealed > 0 => db'[r][c].sealed > 0 \/ db'[r] = Absent
<1>1. ASSUME MigrationInv, [Next]_vars PROVE Final
  <2> USE <1>1 DEF MigrationInv
  <2> SUFFICES ASSUME NEW r \in Rows, NEW c \in Columns, db[r][c].sealed > 0
               PROVE  db'[r][c].sealed > 0 \/ db'[r] = Absent
    OBVIOUS
  <2>1. ASSUME UNCHANGED db PROVE db'[r][c].sealed > 0
    BY <2>1
  <2>2. db[r][c].value # NoValue /\ Columns = {"key", "email"}
    BY RowTypes DEF Kept, Sound
  <2>3. ASSUME NEW row, EncryptedFrom(r, row) PROVE row[c].sealed > 0
    <3>1. row[c].value # NoValue
      BY <2>2, <2>3, StoredRows DEF EncryptedFrom
    <3> QED
      BY <2>3, <3>1 DEF EncryptedFrom, Sealed
  <2>4. r \in dirty => tx[r][c].sealed > 0
    BY <2>3 DEF Pending
  <2>5. ASSUME NEW s \in Rows, UpdateRow(s) PROVE db'[r][c].sealed > 0
    <3>1. s \in todo /\ s \notin dirty
      BY <2>5 DEF UpdateRow, Pending
    <3>2. s = r /\ Stored(s) => Migrated(s)[c].sealed > 0
      BY <2>3, <3>1, MigratedRow
    <3> QED
      BY <2>4, <2>5, <3>1, <3>2 DEF UpdateRow, Commit, TypeOK
  <2>6. ASSUME FinishTable PROVE db'[r][c].sealed > 0
    BY <2>4, <2>6 DEF FinishTable, Commit
  <2>7. ASSUME NEW s \in Rows, NEW row, Write(s, row),
               \/ row = Absent
               \/ c # "key" /\ row[c] = db[s][c]
               \/ c = "key" /\ row["key"].sealed = 1
        PROVE  db'[r][c].sealed > 0 \/ db'[r] = Absent
    BY <2>7 DEF Write, TypeOK
  <2>8. ASSUME NEW s \in Rows,
               Delete(s) \/ \E v \in Keys : Insert(s, v) \/ Update(s, v)
        PROVE  db'[r][c].sealed > 0 \/ db'[r] = Absent
    <3>1. ASSUME Delete(s) PROVE db'[r][c].sealed > 0 \/ db'[r] = Absent
      <4>1. Write(s, Absent)
        BY <3>1 DEF Delete
      <4> QED
        BY <2>7, <4>1
    <3>2. ASSUME NEW v \in Keys, NEW row \in Row, NEW index, Write(s, WithKey(row, v, index)),
                 row = db[s]
          PROVE  db'[r][c].sealed > 0 \/ db'[r] = Absent
      <4>1. /\ WithKey(row, v, index)["key"].sealed = 1
            /\ c # "key" => WithKey(row, v, index)[c] = db[s][c]
        BY <3>2, RowTypes DEF WithKey, Row, Encrypted
      <4> QED
        BY <2>7, <3>2, <4>1
    <3>3. ASSUME NEW v \in Keys, Insert(s, v) PROVE db'[r][c].sealed > 0 \/ db'[r] = Absent
      <4>1. db[s] = Absent /\ Absent \in Row
        BY <3>3, StoredRows, RowTypes DEF Insert, Stored, Kept
      <4> QED
        BY <3>2, <3>3, <4>1 DEF Insert
    <3>4. ASSUME NEW v \in Keys, Update(s, v) PROVE db'[r][c].sealed > 0 \/ db'[r] = Absent
      BY <3>2, <3>4 DEF Update, TypeOK
    <3> QED
      BY <2>8, <3>1, <3>3, <3>4
  <2>9. ASSUME Rollback PROVE db'[r][c].sealed > 0
    <3>1. db'[r][c] = [db[r][c] EXCEPT !.index = NoValue] /\ db[r][c] \in Cell
      BY <2>9 DEF Rollback, TypeOK, Row
    <3> QED
      BY <3>1 DEF Cell
  <2> QED
    BY <2>1, <2>5, <2>6, <2>8, <2>9
    DEF Next, Script, Start, StartAgain, Select, Complete, Clash, Crash, Ends, vars
<1>2. MigrationInv /\ [Next]_vars => [Final]_vars
  BY <1>1
<1> QED
  BY <1>2, MigrationInvariant, PTL DEF EncryptedIsFinal, Spec
=============================================================================

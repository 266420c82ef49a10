------------------------ MODULE TrustedContactsProofs ------------------------
(***************************************************************************)
(* What holds of the contacts for any number of handlers: types, and by    *)
(* how much the limit can be exceeded.  What holds when handlers come one  *)
(* at a time, for any number of contacts, codes and numbers: the limit     *)
(* itself, one primary contact, one live code per number, bounded guesses, *)
(* and that a contact is verified by a code of its own.                    *)
(***************************************************************************)
EXTENDS TrustedContacts, SequenceTheorems, FiniteSetTheorems, TLAPS

\* One handler at a time.
Lone == \A q, r \in Requests : q = r

LEMMA CodesTyped ==
    ASSUME TypeOK
    PROVE  /\ Len(code) \in Nat /\ Len(code) <= MaxCodes
           /\ DOMAIN code = Codes
           /\ Codes \subseteq 1 .. MaxCodes
           /\ \A c \in Codes : code[c] \in Code
<1>1. code \in Seq(Code) /\ Len(code) <= MaxCodes
  BY DEF TypeOK
<1> QED
  BY <1>1, ElementOfSeq, ContactBounds DEF Codes

\* A bulk UPDATE and the columns that differ from what was loaded: no commit
\* of a handler changes the state of a contact or who is verified by it.
LEMMA WrittenRow ==
    ASSUME TypeOK, NEW r \in Requests, NEW i \in Ids
    PROVE  /\ Written(r)[i] \in Contact
           /\ Written(r)[i].state = contact[i].state
           /\ Written(r)[i].verified = contact[i].verified
           /\ Written(r)[i].phone \in {contact[i].phone, call[r].phone}
           /\ Written(r)[i].primary =>
                \/ contact[i].primary /\ i \notin call[r].marked
                                      /\ ~ (i = call[r].id /\ call[r].seen.primary # call[r].primary)
                \/ i = call[r].id /\ call[r].seen.primary # call[r].primary /\ call[r].primary
<1>1. contact[i] \in Contact /\ call[r] \in Call
  BY DEF TypeOK
<1>2. PICK p, m : /\ p = IF i = call[r].id /\ call[r].seen.phone # call[r].phone
                           THEN call[r].phone ELSE contact[i].phone
                  /\ m = IF i = call[r].id /\ call[r].seen.primary # call[r].primary
                           THEN call[r].primary
                           ELSE contact[i].primary /\ i \notin call[r].marked
  OBVIOUS
<1>3. Written(r)[i] = [contact[i] EXCEPT !.phone = p, !.primary = m]
  BY <1>2 DEF Written
<1>4. p \in Phones \cup {"none"} /\ m \in BOOLEAN
  BY <1>1, <1>2 DEF Contact, Call
<1>5. /\ Written(r)[i] \in Contact
      /\ Written(r)[i].state = contact[i].state
      /\ Written(r)[i].verified = contact[i].verified
      /\ Written(r)[i].phone = p
      /\ Written(r)[i].primary = m
  BY <1>1, <1>3, <1>4 DEF Contact
<1> QED
  BY <1>2, <1>5

\* What a handler under way holds.
CallsFit ==
    \A r \in Requests :
        /\ ~ At(r, "idle") => call[r].phone \in Phones
        /\ call[r].pc \in {"demote", "confirm", "save", "delete"} => call[r].id \in Ids
        /\ call[r].pc \in {"reject", "confirm"} \/ (At(r, "demote") /\ call[r].job = "verify")
             => call[r].record \in Codes /\ call[r].tries < MaxAttempts

LiveHaveNumbers == \A i \in Live : contact[i].phone \in Phones

TypeInv == TypeOK /\ CallsFit /\ LiveHaveNumbers

\* The commit that invalidates the earlier codes and adds one.
LEMMA CodesIssued ==
    ASSUME TypeOK, CallsFit, NEW r \in Requests, IssueCode(r)
    PROVE  /\ code' \in Seq(Code) /\ Len(code') = Len(code) + 1 /\ Len(code') <= MaxCodes
           /\ Codes' = Codes \cup {Len(code) + 1}
           /\ \A c \in Codes :
                 /\ code'[c].phone = code[c].phone
                 /\ code'[c].attempts = code[c].attempts
                 /\ code[c].used => code'[c].used
                 /\ c \in call[r].marked => code'[c].used
                 /\ code'[c].used => code[c].used \/ c \in call[r].marked
           /\ code'[Len(code) + 1].phone = call[r].phone
           /\ code'[Len(code) + 1].attempts = 0
           /\ ~ code'[Len(code) + 1].used
<1> DEFINE used == [c \in Codes |-> [code[c] EXCEPT !.used = @ \/ c \in call[r].marked]]
           new == [phone |-> call[r].phone, used |-> FALSE, attempts |-> 0, fresh |-> TRUE]
<1>1. /\ Len(code) \in Nat /\ DOMAIN code = Codes /\ Codes = 1 .. Len(code)
      /\ \A c \in Codes : code[c] \in Code
  BY CodesTyped DEF Codes
<1>2. new \in Code
  BY ContactBounds DEF IssueCode, CallsFit, At, Code
<1>3. \A c \in Codes : /\ used[c] \in Code
                       /\ used[c].phone = code[c].phone
                       /\ used[c].attempts = code[c].attempts
                       /\ used[c].used = (code[c].used \/ c \in call[r].marked)
  BY <1>1 DEF Code
<1>4. used \in [1 .. Len(code) -> Code]
  BY <1>1, <1>3
<1>5. used \in Seq(Code) /\ Len(used) = Len(code)
  BY <1>1, <1>4, LenProperties
<1>6. code' = Append(used, new) /\ Len(code) < MaxCodes
  BY DEF IssueCode
<1>7. /\ new.phone = call[r].phone /\ new.attempts = 0 /\ new.used = FALSE
  OBVIOUS
<1> HIDE DEF used, new
<1>8. /\ code' \in Seq(Code) /\ Len(code') = Len(code) + 1
      /\ \A c \in 1 .. Len(code) : code'[c] = used[c]
      /\ code'[Len(code) + 1] = new
  BY <1>1, <1>2, <1>5, <1>6, AppendProperties
<1>9. Codes' = Codes \cup {Len(code) + 1}
  BY <1>1, <1>8 DEF Codes
<1>10. Len(code') <= MaxCodes
  BY <1>1, <1>6, <1>8, ContactBounds
<1> QED
  BY <1>1, <1>3, <1>7, <1>8, <1>9, <1>10

\* The commits that change columns of one code.
LEMMA CodeChanged ==
    ASSUME TypeOK, NEW c \in Codes, NEW new \in Code, code' = [code EXCEPT ![c] = new]
    PROVE  /\ code' \in Seq(Code) /\ Len(code') = Len(code) /\ Codes' = Codes
           /\ code'[c] = new
           /\ \A d \in Codes : d # c => code'[d] = code[d]
<1>1. /\ Len(code) \in Nat /\ DOMAIN code = Codes /\ Codes = 1 .. Len(code)
      /\ \A d \in Codes : code[d] \in Code
  BY CodesTyped DEF Codes
<1>2. code \in Seq(Code) /\ code' \in Seq(Code) /\ Len(code') = Len(code)
  BY <1>1, ExceptSeq DEF TypeOK
<1> QED
  BY <1>1, <1>2 DEF Codes

LEMMA CodesCounted ==
    ASSUME TypeOK, CallsFit, NEW r \in Requests, Reject(r)
    PROVE  /\ code' \in Seq(Code) /\ Len(code') = Len(code) /\ Codes' = Codes
           /\ call[r].record \in Codes
           /\ code'[call[r].record].attempts = call[r].tries + 1
           /\ \A d \in Codes : /\ code'[d].phone = code[d].phone
                               /\ code'[d].used = code[d].used
                               /\ d # call[r].record => code'[d] = code[d]
<1> DEFINE c == call[r].record
           new == [code[c] EXCEPT !.attempts = call[r].tries + 1]
<1>1. c \in Codes /\ call[r].tries \in 0 .. MaxAttempts /\ call[r].tries < MaxAttempts
  BY DEF CallsFit, Reject, At, TypeOK, Call
<1>2. code[c] \in Code
  BY <1>1, CodesTyped
<1>3. call[r].tries + 1 \in 0 .. MaxAttempts
  BY <1>1, ContactBounds
<1>4. /\ new \in Code /\ new.phone = code[c].phone /\ new.used = code[c].used
      /\ new.attempts = call[r].tries + 1
  BY <1>2, <1>3 DEF Code
<1>5. code' = [code EXCEPT ![c] = new]
  BY DEF Reject
<1> HIDE DEF c, new
<1>6. /\ code' \in Seq(Code) /\ Len(code') = Len(code) /\ Codes' = Codes
      /\ code'[c] = new
      /\ \A d \in Codes : d # c => code'[d] = code[d]
  BY <1>1, <1>4, <1>5, CodeChanged
<1> QED
  BY <1>1, <1>4, <1>6 DEF c

LEMMA CodesSpent ==
    ASSUME TypeOK, CallsFit, NEW r \in Requests, Confirm(r)
    PROVE  /\ code' \in Seq(Code) /\ Len(code') = Len(code) /\ Codes' = Codes
           /\ call[r].record \in Codes
           /\ code'[call[r].record].phone = code[call[r].record].phone
           /\ code'[call[r].record].used
           /\ code'[call[r].record].attempts = call[r].tries + 1
           /\ \A d \in Codes : d # call[r].record => code'[d] = code[d]
<1> DEFINE c == call[r].record
           new == [code[c] EXCEPT !.attempts = call[r].tries + 1, !.used = TRUE]
<1>1. c \in Codes /\ call[r].tries \in 0 .. MaxAttempts /\ call[r].tries < MaxAttempts
  BY DEF CallsFit, Confirm, At, TypeOK, Call
<1>2. code[c] \in Code
  BY <1>1, CodesTyped
<1>3. call[r].tries + 1 \in 0 .. MaxAttempts
  BY <1>1, ContactBounds
<1>4. /\ new \in Code /\ new.phone = code[c].phone /\ new.used = TRUE
      /\ new.attempts = call[r].tries + 1
  BY <1>2, <1>3 DEF Code
<1>5. code' = [code EXCEPT ![c] = new]
  BY DEF Confirm
<1> HIDE DEF c, new
<1>6. /\ code' \in Seq(Code) /\ Len(code') = Len(code) /\ Codes' = Codes
      /\ code'[c] = new
      /\ \A d \in Codes : d # c => code'[d] = code[d]
  BY <1>1, <1>4, <1>5, CodeChanged
<1> QED
  BY <1>1, <1>4, <1>6 DEF c

LEMMA CodesExpired ==
    ASSUME TypeOK, Expire
    PROVE  /\ code' \in Seq(Code) /\ Len(code') = Len(code) /\ Codes' = Codes
           /\ \A d \in Codes : /\ code'[d].phone = code[d].phone
                               /\ code'[d].used = code[d].used
                               /\ code'[d].attempts = code[d].attempts
<1>1. PICK c \in Codes : code' = [code EXCEPT ![c].fresh = FALSE]
  BY DEF Expire
<1> DEFINE new == [code[c] EXCEPT !.fresh = FALSE]
<1>2. code[c] \in Code
  BY CodesTyped
<1>3. /\ new \in Code /\ new.phone = code[c].phone /\ new.used = code[c].used
      /\ new.attempts = code[c].attempts
  BY <1>2 DEF Code
<1>4. code' = [code EXCEPT ![c] = new]
  BY <1>1
<1> HIDE DEF new
<1> QED
  BY <1>3, <1>4, CodeChanged

LEMMA NothingHeld == Idle \in Call /\ Idle.pc = "idle" /\ Idle.job = "none"
BY ContactBounds DEF Idle, Local, Call, Absent, Contact, NoCode

LEMMA HoldStep ==
    ASSUME TypeOK, CallsFit, NEW r \in Requests, NEW l \in Call, Hold(r, l),
           Codes \subseteq Codes',
           l.pc # "idle" => l.phone \in Phones,
           l.pc \in {"demote", "confirm", "save", "delete"} => l.id \in Ids,
           l.pc \in {"reject", "confirm"} \/ (l.pc = "demote" /\ l.job = "verify")
             => l.record \in Codes /\ l.tries < MaxAttempts
    PROVE  call' \in [Requests -> Call] /\ CallsFit'
<1>1. call \in [Requests -> Call]
  BY DEF TypeOK
<1>2. call' \in [Requests -> Call]
  BY <1>1 DEF Hold
<1>3. call'[r] = l /\ \A q \in Requests : q # r => call'[q] = call[q]
  BY <1>1 DEF Hold
<1> QED
  BY <1>2, <1>3 DEF CallsFit, At

LEMMA FinishStep ==
    ASSUME TypeOK, CallsFit, NEW r \in Requests, Finish(r), Codes \subseteq Codes'
    PROVE  call' \in [Requests -> Call] /\ CallsFit'
BY NothingHeld, HoldStep DEF Finish

\* A handler goes on with the rows of its bulk UPDATE.
LEMMA MarkStep ==
    ASSUME TypeOK, NEW r \in Requests, NEW p \in {"issue", "confirm", "save"},
           NEW rows \in SUBSET Nat, Mark(r, p, rows)
    PROVE  /\ call' \in [Requests -> Call]
           /\ \A q \in Requests : q # r => call'[q] = call[q]
           /\ call'[r].pc = p /\ call'[r].marked = rows
           /\ call'[r].job = call[r].job /\ call'[r].id = call[r].id
           /\ call'[r].seen = call[r].seen /\ call'[r].phone = call[r].phone
           /\ call'[r].primary = call[r].primary /\ call'[r].record = call[r].record
           /\ call'[r].tries = call[r].tries
BY DEF TypeOK, Mark, Call

\* The rows a bulk UPDATE finds.
LEMMA RowsAreNumbers ==
    ASSUME TypeOK
    PROVE  /\ Live \in SUBSET Nat
           /\ \A p : Unused(p) \in SUBSET Nat
           /\ Ids \subseteq Nat
BY CodesTyped, ContactBounds DEF Live, Unused, Ids, Codes

\* What a call holds when it begins.
LEMMA BeginStep ==
    ASSUME TypeOK, CallsFit, LiveHaveNumbers, NEW r \in Requests,
           \/ \E p \in Phones : StartAdd(r, p)
           \/ \E i \in Ids : StartResend(r, i) \/ StartPrimary(r, i) \/ StartDelete(r, i)
           \/ \E i \in Ids, c \in Codes, right, primary \in BOOLEAN :
                StartVerify(r, i, c, right, primary)
           \/ \E i \in Ids, p \in Phones, primary \in BOOLEAN : StartUpdate(r, i, p, primary)
    PROVE  /\ UNCHANGED <<contact, code, observed>>
           /\ call' \in [Requests -> Call] /\ CallsFit'
           /\ \A q \in Requests : q # r => call'[q] = call[q]
           /\ At(r, "idle") /\ ~ At(r, "issue")' /\ ~ At(r, "idle")'
           /\ call'[r].marked = {}
           /\ At(r, "invalidate")' /\ call'[r].job # "resend"
                => Cardinality(Live) < Limit
           /\ call'[r].pc \in {"demote", "confirm", "save", "delete"}
                => call'[r].id \in Live /\ call'[r].seen = contact[call'[r].id]
           /\ At(r, "save")' \/ At(r, "confirm")'
                => (call'[r].primary => call'[r].seen.primary)
           /\ call'[r].pc \in {"reject", "confirm"}
                              \/ (At(r, "demote")' /\ call'[r].job = "verify")
                => /\ call'[r].record \in Codes
                   /\ ~ code[call'[r].record].used
                   /\ call'[r].tries = code[call'[r].record].attempts
<1> DEFINE Begun(l) ==
      /\ Hold(r, l) /\ l \in Call
      /\ UNCHANGED <<contact, code, observed>>
      /\ At(r, "idle") /\ l.pc \notin {"idle", "issue"}
      /\ l.marked = {}
      /\ l.phone \in Phones
      /\ l.pc = "invalidate" /\ l.job # "resend" => Cardinality(Live) < Limit
      /\ l.pc \in {"demote", "confirm", "save", "delete"}
           => l.id \in Ids /\ l.id \in Live /\ l.seen = contact[l.id]
      /\ l.pc \in {"save", "confirm"} => (l.primary => l.seen.primary)
      /\ l.pc \in {"reject", "confirm"} \/ (l.pc = "demote" /\ l.job = "verify")
           => /\ l.record \in Codes
              /\ ~ code[l.record].used
              /\ l.tries < MaxAttempts
              /\ l.tries = code[l.record].attempts
<1> USE DEF Begin, Local
<1>a. /\ \A i \in Ids : contact[i] \in Contact
      /\ \A i \in Live : i \in Ids /\ contact[i].phone \in Phones
      /\ \A c \in Codes : code[c] \in Code /\ c \in 0 .. MaxCodes
      /\ 0 \in 0 .. MaxCodes /\ 0 \in 0 .. MaxAttempts
  BY CodesTyped, ContactBounds DEF TypeOK, LiveHaveNumbers, Live
<1>1. ASSUME NEW p \in Phones, StartAdd(r, p) PROVE \E l : Begun(l)
  <2>1. Absent("none") \in Contact
    BY DEF Absent, Contact
  <2>2. Begun(Adding(p))
    BY <1>1, <1>a, <2>1 DEF StartAdd, Adding, Call, NoCode
  <2> QED
    BY <2>2
<1>2. ASSUME NEW i \in Ids, StartResend(r, i) PROVE \E l : Begun(l)
  <2>1. Begun(Loaded("resend", "invalidate", i))
    BY <1>2, <1>a DEF StartResend, Loaded, Holding, Call, Contact, NoCode
  <2> QED
    BY <2>1
<1>3. ASSUME NEW i \in Ids, StartPrimary(r, i) PROVE \E l : Begun(l)
  <2>1. Begun(Holding("primary", "demote", i, contact[i].phone, TRUE))
    BY <1>3, <1>a DEF StartPrimary, Holding, Call, Contact, NoCode
  <2> QED
    BY <2>1
<1>4. ASSUME NEW i \in Ids, StartDelete(r, i) PROVE \E l : Begun(l)
  <2>1. Begun(Loaded("delete", "delete", i))
    BY <1>4, <1>a DEF StartDelete, Loaded, Holding, Call, Contact, NoCode
  <2> QED
    BY <2>1
<1>5. ASSUME NEW i \in Ids, NEW p \in Phones, NEW primary \in BOOLEAN,
             StartUpdate(r, i, p, primary)
      PROVE  \E l : Begun(l)
  <2>1. CASE primary /\ ~ contact[i].primary
    <3>1. Begun(Holding("update", "demote", i, p, primary))
      BY <1>5, <1>a, <2>1 DEF StartUpdate, Holding, Call, Contact, NoCode
    <3> QED
      BY <3>1
  <2>2. CASE ~ (primary /\ ~ contact[i].primary)
    <3>1. Begun(Holding("update", "save", i, p, primary))
      BY <1>5, <1>a, <2>2 DEF StartUpdate, Holding, Call, Contact, NoCode
    <3> QED
      BY <3>1
  <2> QED
    BY <2>1, <2>2
<1>6. ASSUME NEW i \in Ids, NEW c \in Codes, NEW right \in BOOLEAN, NEW primary \in BOOLEAN,
             StartVerify(r, i, c, right, primary)
      PROVE  \E l : Begun(l)
  <2> DEFINE l == Checking(i, c, right, primary)
  <2>1. /\ Latest(c, contact[i].phone) /\ code[c].attempts < MaxAttempts
        /\ i \in Live /\ Hold(r, l) /\ At(r, "idle")
        /\ UNCHANGED <<contact, code, observed>>
    BY <1>6 DEF StartVerify
  <2>2. ~ code[c].used
    BY <2>1 DEF Latest, Unused
  <2>3. l \in Call
    BY <1>a DEF Checking, Call, Contact, Code
  <2>4. Begun(l)
    BY <1>a, <2>1, <2>2, <2>3 DEF Checking
  <2> QED
    BY <2>4
<1> HIDE DEF Begun
<1>7. PICK l : Begun(l)
  BY <1>1, <1>2, <1>3, <1>4, <1>5, <1>6
<1> USE DEF Begun
<1>8. call' \in [Requests -> Call] /\ CallsFit'
  <2>1. Codes' = Codes
    BY <1>7 DEF Codes
  <2> QED
    BY <1>7, <2>1, HoldStep
<1>9. call'[r] = l /\ \A q \in Requests : q # r => call'[q] = call[q]
  BY <1>7 DEF Hold, TypeOK
<1> QED
  BY <1>7, <1>8, <1>9 DEF At

\* The handlers that begin a call.
Starts(r) ==
    \/ \E p \in Phones : StartAdd(r, p)
    \/ \E i \in Ids : StartResend(r, i) \/ StartPrimary(r, i) \/ StartDelete(r, i)
    \/ \E i \in Ids, c \in Codes, right, primary \in BOOLEAN :
         StartVerify(r, i, c, right, primary)
    \/ \E i \in Ids, p \in Phones, primary \in BOOLEAN : StartUpdate(r, i, p, primary)

\* The table after an update: no contact appears or goes.
LEMMA TableWritten ==
    ASSUME TypeInv, NEW r \in Requests, ~ At(r, "idle"),
           contact' = Written(r) \/
             \E i \in Ids : contact' = [Written(r) EXCEPT ![i].verified = TRUE]
    PROVE  /\ contact' \in [Ids -> Contact]
           /\ Live' = Live
           /\ LiveHaveNumbers'
           /\ \A i \in Ids : contact'[i].state = contact[i].state
           /\ \A i \in Ids :
                contact'[i].primary =>
                  \/ contact[i].primary /\ i \notin call[r].marked
                       /\ ~ (i = call[r].id /\ call[r].seen.primary # call[r].primary)
                  \/ i = call[r].id /\ call[r].seen.primary # call[r].primary /\ call[r].primary
<1> DEFINE W == Written(r)
<1>1. /\ DOMAIN W = Ids /\ W = [i \in Ids |-> W[i]]
      /\ \A i \in Ids : W[i] \in Contact
  BY WrittenRow DEF Written, TypeInv
<1>2. \A i \in Ids :
        /\ W[i].state = contact[i].state
        /\ W[i].phone \in {contact[i].phone, call[r].phone}
        /\ W[i].primary =>
                  \/ contact[i].primary /\ i \notin call[r].marked
                       /\ ~ (i = call[r].id /\ call[r].seen.primary # call[r].primary)
                  \/ i = call[r].id /\ call[r].seen.primary # call[r].primary /\ call[r].primary
  BY WrittenRow DEF TypeInv
<1>3. call[r].phone \in Phones
  BY DEF TypeInv, CallsFit
<1> HIDE DEF W
<1>4. /\ contact' \in [Ids -> Contact]
      /\ \A i \in Ids : /\ contact'[i].state = W[i].state
                        /\ contact'[i].phone = W[i].phone
                        /\ contact'[i].primary = W[i].primary
  <2>1. CASE contact' = W
    BY <1>1, <2>1
  <2>2. ASSUME NEW i \in Ids, contact' = [W EXCEPT ![i].verified = TRUE]
        PROVE  /\ contact' \in [Ids -> Contact]
               /\ \A j \in Ids : /\ contact'[j].state = W[j].state
                                 /\ contact'[j].phone = W[j].phone
                                 /\ contact'[j].primary = W[j].primary
    <3>1. /\ [W[i] EXCEPT !.verified = TRUE] \in Contact
          /\ [W[i] EXCEPT !.verified = TRUE].state = W[i].state
          /\ [W[i] EXCEPT !.verified = TRUE].phone = W[i].phone
          /\ [W[i] EXCEPT !.verified = TRUE].primary = W[i].primary
      BY <1>1 DEF Contact
    <3> QED
      BY <1>1, <2>2, <3>1
  <2> QED
    BY <2>1, <2>2 DEF W
<1>5. Live' = Live
  BY <1>2, <1>4 DEF Live
<1>6. LiveHaveNumbers'
  BY <1>2, <1>3, <1>4, <1>5 DEF LiveHaveNumbers, Live, TypeInv
<1> QED
  BY <1>2, <1>4, <1>5, <1>6

\* The row a call to POST /contacts adds.
LEMMA ContactAdded ==
    ASSUME TypeInv, NEW r \in Requests, IssueCode(r), call[r].job # "resend"
    PROVE  \E i \in Ids :
              /\ contact[i].state = "none" /\ i \notin Live /\ Live' = Live \cup {i}
              /\ contact' \in [Ids -> Contact]
              /\ ~ contact'[i].primary /\ ~ contact'[i].verified
              /\ contact'[i].phone = call[r].phone
              /\ \A j \in Ids : j # i => contact'[j] = contact[j]
<1>1. PICK i \in Ids : /\ contact[i].state = "none"
                       /\ contact' = [contact EXCEPT ![i] = NewContact(call[r].phone)]
  BY DEF IssueCode
<1>2. NewContact(call[r].phone) \in Contact
  BY DEF NewContact, Contact, TypeInv, CallsFit, IssueCode, At
<1>3. /\ contact' \in [Ids -> Contact]
      /\ contact'[i] = NewContact(call[r].phone)
      /\ \A j \in Ids : j # i => contact'[j] = contact[j]
  BY <1>1, <1>2 DEF TypeInv, TypeOK
<1>4. i \notin Live /\ Live' = Live \cup {i}
  BY <1>1, <1>3 DEF Live, NewContact
<1> QED
  BY <1>1, <1>3, <1>4 DEF NewContact

LEMMA ContactDeleted ==
    ASSUME TypeInv, NEW r \in Requests, Delete(r)
    PROVE  /\ contact' \in [Ids -> Contact]
           /\ Live' = Live \ {call[r].id}
           /\ contact'[call[r].id].state = "deleted"
           /\ \A j \in Ids : j # call[r].id => contact'[j] = contact[j]
<1>1. Absent("deleted") \in Contact
  BY DEF Absent, Contact
<1>2. call[r].id \in Ids
  BY DEF TypeInv, CallsFit, Delete, At
<1>3. /\ contact' \in [Ids -> Contact]
      /\ contact'[call[r].id] = Absent("deleted")
      /\ \A j \in Ids : j # call[r].id => contact'[j] = contact[j]
  BY <1>1, <1>2 DEF Delete, TypeInv, TypeOK
<1> QED
  BY <1>3 DEF Live, Absent

LEMMA TypesPreserved ==
    ASSUME TypeInv, [Next]_vars
    PROVE  TypeInv'
<1> USE DEF TypeInv
<1>k. ASSUME code' = code PROVE /\ Codes' = Codes
                                /\ code' \in Seq(Code) /\ Len(code') <= MaxCodes
  BY <1>k DEF Codes, TypeOK
<1>l. ASSUME contact' = contact
      PROVE  contact' \in [Ids -> Contact] /\ Live' = Live /\ LiveHaveNumbers'
  BY <1>l DEF Live, LiveHaveNumbers, TypeOK
<1>o. ASSUME UNCHANGED observed
      PROVE  /\ proof' \in [Ids -> 0 .. MaxCodes]
             /\ wrong' \in [1 .. MaxCodes -> Nat]
             /\ alerted' \subseteq Ids
  BY <1>o DEF observed, TypeOK
<1>1. ASSUME NEW r \in Requests, Starts(r) PROVE TypeInv'
  <2>1. /\ UNCHANGED <<contact, code, observed>>
        /\ call' \in [Requests -> Call] /\ CallsFit'
    BY <1>1, BeginStep DEF Starts
  <2> QED
    BY <1>k, <1>l, <1>o, <2>1 DEF TypeOK
<1>2. ASSUME NEW r \in Requests, NEW p \in {"issue", "confirm", "save"}, NEW rows \in SUBSET Nat,
             Mark(r, p, rows), UNCHANGED <<contact, code, observed>>,
             \/ At(r, "invalidate") /\ p = "issue"
             \/ At(r, "demote") /\ p = IF call[r].job = "verify" THEN "confirm" ELSE "save"
      PROVE  TypeInv'
  <2>1. /\ call' \in [Requests -> Call]
        /\ \A q \in Requests : q # r => call'[q] = call[q]
        /\ call'[r].pc = p /\ call'[r].phone = call[r].phone
        /\ call'[r].id = call[r].id /\ call'[r].record = call[r].record
        /\ call'[r].tries = call[r].tries /\ call'[r].job = call[r].job
    BY <1>2, MarkStep
  <2>2. CallsFit'
    BY <1>2, <1>k, <2>1 DEF CallsFit, At
  <2> QED
    BY <1>2, <1>k, <1>l, <1>o, <2>1, <2>2 DEF TypeOK
<1>3. ASSUME NEW r \in Requests, Invalidate(r) PROVE TypeInv'
  BY <1>2, <1>3, RowsAreNumbers DEF Invalidate
<1>4. ASSUME NEW r \in Requests, Demote(r) PROVE TypeInv'
  <2> DEFINE rows == {i \in Live : contact[i].primary}
             p == IF call[r].job = "verify" THEN "confirm" ELSE "save"
  <2>1. rows \in SUBSET Nat /\ p \in {"issue", "confirm", "save"}
    BY RowsAreNumbers
  <2>2. /\ At(r, "demote") /\ Mark(r, p, rows)
        /\ UNCHANGED <<contact, code, observed>>
    BY <1>4 DEF Demote
  <2>3. p = IF call[r].job = "verify" THEN "confirm" ELSE "save"
    OBVIOUS
  <2> HIDE DEF rows, p
  <2> QED
    BY <1>2, <2>1, <2>2, <2>3
<1>5. ASSUME NEW r \in Requests, IssueCode(r) PROVE TypeInv'
  <2>1. /\ code' \in Seq(Code) /\ Len(code') <= MaxCodes /\ Codes \subseteq Codes'
    BY <1>5, CodesIssued
  <2>2. call' \in [Requests -> Call] /\ CallsFit'
    BY <1>5, <2>1, FinishStep DEF IssueCode
  <2>3. contact' \in [Ids -> Contact] /\ LiveHaveNumbers'
    <3>1. CASE call[r].job = "resend"
      BY <1>5, <1>l, <3>1 DEF IssueCode
    <3>2. CASE call[r].job # "resend"
      <4>1. PICK i \in Ids : /\ contact' \in [Ids -> Contact] /\ Live' = Live \cup {i}
                             /\ contact'[i].phone = call[r].phone
                             /\ \A j \in Ids : j # i => contact'[j] = contact[j]
        BY <1>5, <3>2, ContactAdded
      <4>2. call[r].phone \in Phones
        BY <1>5 DEF CallsFit, IssueCode, At
      <4> QED
        BY <4>1, <4>2 DEF LiveHaveNumbers, Live
    <3> QED
      BY <3>1, <3>2
  <2> QED
    BY <1>5, <1>o, <2>1, <2>2, <2>3 DEF TypeOK, IssueCode
<1>6. ASSUME NEW r \in Requests, Reject(r) PROVE TypeInv'
  <2>1. /\ code' \in Seq(Code) /\ Len(code') = Len(code) /\ Codes' = Codes
        /\ call[r].record \in Codes
    BY <1>6, CodesCounted
  <2>2. call' \in [Requests -> Call] /\ CallsFit'
    BY <1>6, <2>1, FinishStep DEF Reject
  <2>3. wrong' \in [1 .. MaxCodes -> Nat]
    BY <1>6, <2>1, CodesTyped DEF Reject, TypeOK
  <2> QED
    BY <1>6, <1>l, <2>1, <2>2, <2>3 DEF TypeOK, Reject
<1>7. ASSUME NEW r \in Requests, Confirm(r) PROVE TypeInv'
  <2>1. /\ code' \in Seq(Code) /\ Len(code') = Len(code) /\ Codes' = Codes
        /\ call[r].record \in Codes
    BY <1>7, CodesSpent
  <2>2. call' \in [Requests -> Call] /\ CallsFit'
    BY <1>7, <2>1, FinishStep DEF Confirm
  <2>3. contact' \in [Ids -> Contact] /\ LiveHaveNumbers'
    <3>1. contact' = Written(r) \/
             \E i \in Ids : contact' = [Written(r) EXCEPT ![i].verified = TRUE]
      BY <1>7 DEF Confirm, Live
    <3>2. ~ At(r, "idle")
      BY <1>7 DEF Confirm, At
    <3> QED
      BY <3>1, <3>2, TableWritten
  <2>4. proof' \in [Ids -> 0 .. MaxCodes]
    <3>1. proof' = [proof EXCEPT ![call[r].id] = call[r].record]
      BY <1>7 DEF Confirm
    <3>2. call[r].record \in 0 .. MaxCodes
      BY DEF TypeOK, Call
    <3> QED
      BY <3>1, <3>2 DEF TypeOK
  <2> QED
    BY <1>7, <2>1, <2>2, <2>3, <2>4 DEF TypeOK, Confirm
<1>8. ASSUME NEW r \in Requests, Save(r) PROVE TypeInv'
  <2>1. contact' \in [Ids -> Contact] /\ LiveHaveNumbers'
    BY <1>8, TableWritten DEF Save, At
  <2>2. call' \in [Requests -> Call] /\ CallsFit'
    BY <1>8, <1>k, FinishStep DEF Save
  <2> QED
    BY <1>8, <1>k, <1>o, <2>1, <2>2 DEF TypeOK, Save
<1>9. ASSUME NEW r \in Requests, Delete(r) PROVE TypeInv'
  <2>1. contact' \in [Ids -> Contact] /\ LiveHaveNumbers'
    BY <1>9, ContactDeleted DEF LiveHaveNumbers, Live
  <2>2. call' \in [Requests -> Call] /\ CallsFit'
    BY <1>9, <1>k, FinishStep DEF Delete
  <2> QED
    BY <1>9, <1>k, <1>o, <2>1, <2>2 DEF TypeOK, Delete
<1>10. ASSUME NEW r \in Requests, Abort(r) PROVE TypeInv'
  <2>1. call' \in [Requests -> Call] /\ CallsFit'
    BY <1>10, <1>k, FinishStep DEF Abort
  <2> QED
    BY <1>10, <1>k, <1>l, <1>o, <2>1 DEF TypeOK, Abort
<1>11. ASSUME Expire PROVE TypeInv'
  <2>1. code' \in Seq(Code) /\ Len(code') = Len(code) /\ Codes' = Codes
    BY <1>11, CodesExpired
  <2>2. CallsFit'
    BY <1>11, <2>1 DEF Expire, CallsFit, At
  <2>3. /\ call' = call /\ contact' = contact /\ UNCHANGED observed
    BY <1>11 DEF Expire
  <2> QED
    BY <1>l, <1>o, <2>1, <2>2, <2>3 DEF TypeOK
<1>12. ASSUME AddressAlert PROVE TypeInv'
  <2>1. CallsFit'
    BY <1>12, <1>k DEF AddressAlert, CallsFit, At
  <2> QED
    BY <1>12, <1>k, <1>l, <2>1 DEF AddressAlert, TypeOK, Live
<1>13. CASE UNCHANGED vars
  <2>1. CallsFit'
    BY <1>13, <1>k DEF vars, CallsFit, At
  <2> QED
    BY <1>13, <1>k, <1>l, <2>1 DEF vars, TypeOK
<1> QED
  BY <1>1, <1>3, <1>4, <1>5, <1>6, <1>7, <1>8, <1>9, <1>10, <1>11, <1>12, <1>13
  DEF Next, Starts

LEMMA ContactsBegin == Init => TypeInv
<1> SUFFICES ASSUME Init PROVE TypeInv
  OBVIOUS
<1>1. call \in [Requests -> Call] /\ CallsFit
  BY NothingHeld DEF Init, CallsFit, At
<1>2. contact \in [Ids -> Contact] /\ LiveHaveNumbers
  BY DEF Init, Absent, Contact, LiveHaveNumbers, Live
<1>3. code \in Seq(Code) /\ Len(code) <= MaxCodes
  BY ContactBounds DEF Init
<1>4. /\ proof \in [Ids -> 0 .. MaxCodes]
      /\ wrong \in [1 .. MaxCodes -> Nat]
      /\ alerted \subseteq Ids
  BY ContactBounds DEF Init, NoCode
<1> QED
  BY <1>1, <1>2, <1>3, <1>4 DEF TypeInv, TypeOK

(* Every variable keeps its type, and what a handler holds fits its place: *)
(* in particular the attempts of a code stop at their limit, however many  *)
(* handlers count them by a read and a later write.                        *)
THEOREM ContactTypes == Spec => []TypeOK
<1>1. TypeInv => TypeOK
  BY DEF TypeInv
<1> QED
  BY <1>1, ContactsBegin, TypesPreserved, PTL DEF Spec

-----------------------------------------------------------------------------
(* The limit                                                               *)

\* Handlers that passed the check of the limit and have not added theirs yet.
Adders == {r \in Requests : /\ call[r].pc \in {"invalidate", "issue"}
                            /\ call[r].job # "resend"}

\* OvershootBounded alone does not survive a commit: a handler that passed the
\* check counts from then on.
AddersCounted ==
    Cardinality(Live) + Cardinality(Adders) < Limit + Cardinality(Requests)

LEMMA FewerCounted ==
    ASSUME NEW n \in Nat, NEW A, NEW B, IsFiniteSet(A), IsFiniteSet(B),
           Cardinality(A) + Cardinality(B) < n,
           NEW C \in SUBSET A, NEW D \in SUBSET B
    PROVE  Cardinality(C) + Cardinality(D) < n
<1>1. Cardinality(C) <= Cardinality(A) /\ Cardinality(D) <= Cardinality(B)
  BY FS_Subset
<1>2. /\ Cardinality(A) \in Nat /\ Cardinality(B) \in Nat
      /\ Cardinality(C) \in Nat /\ Cardinality(D) \in Nat
  BY FS_Subset, FS_CardinalityType
<1> QED
  BY <1>1, <1>2

LEMMA MovedCounted ==
    ASSUME NEW n \in Nat, NEW A, NEW B, IsFiniteSet(A), IsFiniteSet(B),
           Cardinality(A) + Cardinality(B) < n, NEW a, NEW b \in B,
           NEW D \in SUBSET (B \ {b})
    PROVE  Cardinality(A \cup {a}) + Cardinality(D) < n
<1>1. Cardinality(A) \in Nat /\ Cardinality(B) \in Nat
  BY FS_CardinalityType
<1>2. IsFiniteSet(A \cup {a}) /\ Cardinality(A \cup {a}) <= Cardinality(A) + 1
  <2>1. Cardinality(A \cup {a}) = IF a \in A THEN Cardinality(A) ELSE Cardinality(A) + 1
    BY FS_AddElement
  <2> QED
    BY <1>1, <2>1, FS_AddElement
<1>3. IsFiniteSet(B \ {b}) /\ Cardinality(B \ {b}) = Cardinality(B) - 1
  BY FS_RemoveElement
<1>4. Cardinality(A \cup {a}) \in Nat /\ Cardinality(B \ {b}) \in Nat
  BY <1>2, <1>3, FS_CardinalityType
<1>5. Cardinality(A \cup {a}) + Cardinality(B \ {b}) < n
  BY <1>1, <1>2, <1>3, <1>4
<1> QED
  BY <1>2, <1>3, <1>5, FewerCounted

LEMMA CountedSets ==
    /\ IsFiniteSet(Live) /\ Cardinality(Live) \in Nat
    /\ IsFiniteSet(Adders) /\ Cardinality(Adders) \in Nat
    /\ Cardinality(Adders) <= Cardinality(Requests)
    /\ Cardinality(Requests) \in Nat
    /\ Limit + Cardinality(Requests) \in Nat
<1>1. IsFiniteSet(Ids)
  BY ContactBounds, FS_Interval DEF Ids
<1>2. Live \in SUBSET Ids /\ Adders \in SUBSET Requests
  BY DEF Live, Adders
<1>3. IsFiniteSet(Live)
  BY <1>1, <1>2, FS_Subset
<1>4. IsFiniteSet(Requests)
  BY ContactBounds
<1>5. IsFiniteSet(Adders) /\ Cardinality(Adders) <= Cardinality(Requests)
  BY <1>2, <1>4, FS_Subset
<1>6. /\ Cardinality(Live) \in Nat /\ Cardinality(Adders) \in Nat
      /\ Cardinality(Requests) \in Nat
  BY <1>3, <1>4, <1>5, FS_CardinalityType
<1>7. Limit \in Nat
  BY ContactBounds
<1> QED
  BY <1>3, <1>5, <1>6, <1>7

LEMMA AddersStayCounted ==
    ASSUME TypeInv, AddersCounted, [Next]_vars
    PROVE  AddersCounted'
<1> DEFINE n == Limit + Cardinality(Requests)
<1>0. /\ IsFiniteSet(Live) /\ IsFiniteSet(Adders) /\ n \in Nat
      /\ Cardinality(Live) + Cardinality(Adders) < n
  BY CountedSets DEF AddersCounted
<1>g. ASSUME Cardinality(Live') + Cardinality(Adders') < n PROVE AddersCounted'
  BY <1>g DEF AddersCounted
<1> HIDE DEF n
<1>a. ASSUME Live' \subseteq Live, Adders' \subseteq Adders PROVE AddersCounted'
  BY <1>0, <1>a, <1>g, FewerCounted
<1>f. ASSUME NEW r \in Requests, Finish(r) PROVE Adders' \subseteq Adders \ {r}
  <2>1. call'[r] = Idle /\ \A q \in Requests : q # r => call'[q] = call[q]
    BY <1>f DEF Finish, Hold, TypeInv, TypeOK
  <2> QED
    BY <2>1, NothingHeld DEF Adders
<1>l. ASSUME contact' = contact PROVE Live' = Live
  BY <1>l DEF Live
<1>c. ASSUME call' = call PROVE Adders' = Adders
  BY <1>c DEF Adders
<1>1. ASSUME NEW r \in Requests, Starts(r) PROVE AddersCounted'
  <2>1. /\ contact' = contact /\ At(r, "idle") /\ ~ At(r, "issue")'
        /\ \A q \in Requests : q # r => call'[q] = call[q]
        /\ At(r, "invalidate")' /\ call'[r].job # "resend" => Cardinality(Live) < Limit
    BY <1>1, BeginStep DEF Starts, TypeInv
  <2>2. CASE At(r, "invalidate")' /\ call'[r].job # "resend"
    <3>1. Adders' \in SUBSET Requests
      BY DEF Adders
    <3>2. IsFiniteSet(Adders') /\ Cardinality(Adders') <= Cardinality(Requests)
      BY <3>1, ContactBounds, FS_Subset
    <3>3. Cardinality(Adders') \in Nat
      BY <3>2, FS_CardinalityType
    <3>4. Cardinality(Live') < Limit /\ Cardinality(Live') \in Nat
      <4>1. Live' = Live
        BY <1>l, <2>1
      <4> QED
        BY <4>1, <2>1, <2>2, CountedSets
    <3>5. Cardinality(Requests) \in Nat /\ Limit \in Nat
      BY CountedSets, ContactBounds
    <3>6. Cardinality(Live') + Cardinality(Adders') < n
      BY <3>2, <3>3, <3>4, <3>5 DEF n
    <3> QED
      BY <1>g, <3>6
  <2>3. CASE ~ (At(r, "invalidate")' /\ call'[r].job # "resend")
    <3>1. Adders' \subseteq Adders
      BY <2>1, <2>3 DEF Adders, At
    <3> QED
      BY <1>a, <1>l, <2>1, <3>1
  <2> QED
    BY <2>2, <2>3
<1>2. ASSUME NEW r \in Requests, Invalidate(r) PROVE AddersCounted'
  <2>1. Mark(r, "issue", Unused(call[r].phone)) /\ Unused(call[r].phone) \in SUBSET Nat
    BY <1>2, RowsAreNumbers DEF Invalidate, TypeInv
  <2>2. /\ \A q \in Requests : q # r => call'[q] = call[q]
        /\ call'[r].job = call[r].job
    BY <2>1, MarkStep DEF TypeInv
  <2>3. Adders' \subseteq Adders
    BY <1>2, <2>2 DEF Adders, Invalidate, At
  <2> QED
    BY <1>2, <1>a, <1>l, <2>3 DEF Invalidate
<1>3. ASSUME NEW r \in Requests, Demote(r) PROVE AddersCounted'
  <2> DEFINE rows == {i \in Live : contact[i].primary}
             p == IF call[r].job = "verify" THEN "confirm" ELSE "save"
  <2>1. Mark(r, p, rows) /\ rows \in SUBSET Nat /\ p \in {"issue", "confirm", "save"}
    BY <1>3, RowsAreNumbers DEF Demote, TypeInv
  <2>2. p \notin {"invalidate", "issue"}
    OBVIOUS
  <2> HIDE DEF rows, p
  <2>3. /\ \A q \in Requests : q # r => call'[q] = call[q]
        /\ call'[r].pc = p
    BY <2>1, MarkStep DEF TypeInv
  <2>4. Adders' \subseteq Adders
    BY <2>2, <2>3 DEF Adders
  <2> QED
    BY <1>3, <1>a, <1>l, <2>4 DEF Demote
<1>4. ASSUME NEW r \in Requests, IssueCode(r) PROVE AddersCounted'
  <2>1. Adders' \subseteq Adders \ {r}
    BY <1>4, <1>f DEF IssueCode
  <2>2. CASE call[r].job = "resend"
    BY <1>4, <1>a, <1>l, <2>1, <2>2 DEF IssueCode
  <2>3. CASE call[r].job # "resend"
    <3>1. PICK i : Live' = Live \cup {i}
      BY <1>4, <2>3, ContactAdded
    <3>2. r \in Adders
      BY <1>4, <2>3 DEF IssueCode, Adders, At
    <3>3. Cardinality(Live \cup {i}) + Cardinality(Adders') < n
      <4>1. Adders' \in SUBSET (Adders \ {r})
        BY <2>1
      <4> DEFINE L == Live
                 D == Adders'
                 A == Adders
      <4>2. /\ IsFiniteSet(L) /\ IsFiniteSet(A) /\ n \in Nat
            /\ Cardinality(L) + Cardinality(A) < n
            /\ r \in A /\ D \in SUBSET (A \ {r})
        BY <1>0, <3>2, <4>1
      <4> HIDE DEF L, D, A
      <4>3. Cardinality(L \cup {i}) + Cardinality(D) < n
        BY <4>2, MovedCounted
      <4> QED
        BY <4>3 DEF L, D
    <3> QED
      BY <1>g, <3>1, <3>3
  <2> QED
    BY <2>2, <2>3
<1>5. ASSUME NEW r \in Requests, Reject(r) \/ Abort(r) PROVE AddersCounted'
  BY <1>5, <1>a, <1>f, <1>l DEF Reject, Abort
<1>6. ASSUME NEW r \in Requests, Confirm(r) PROVE AddersCounted'
  <2>1. contact' = Written(r) \/
          \E i \in Ids : contact' = [Written(r) EXCEPT ![i].verified = TRUE]
    BY <1>6 DEF Confirm, Live
  <2>2. Live' = Live
    BY <1>6, <2>1, TableWritten DEF Confirm, At
  <2>3. Adders' \subseteq Adders
    BY <1>6, <1>f DEF Confirm
  <2> QED
    BY <1>a, <2>2, <2>3
<1>7. ASSUME NEW r \in Requests, Save(r) PROVE AddersCounted'
  <2>1. Live' = Live
    BY <1>7, TableWritten DEF Save, At
  <2> QED
    BY <1>7, <1>a, <1>f, <2>1 DEF Save
<1>8. ASSUME NEW r \in Requests, Delete(r) PROVE AddersCounted'
  <2>1. Live' \subseteq Live
    BY <1>8, ContactDeleted
  <2> QED
    BY <1>8, <1>a, <1>f, <2>1 DEF Delete
<1>9. ASSUME Expire \/ AddressAlert \/ UNCHANGED vars PROVE AddersCounted'
  BY <1>9, <1>a, <1>c, <1>l DEF Expire, AddressAlert, vars
<1> QED
  BY <1>1, <1>2, <1>3, <1>4, <1>5, <1>6, <1>7, <1>8, <1>9 DEF Next, Starts

(* add_contact checks the limit and inserts in separate steps: it is       *)
(* exceeded by no more contacts than there are other handlers, however     *)
(* many are added and deleted over time.                                   *)
THEOREM Overshoot == Spec => []OvershootBounded
<1> DEFINE Inv == TypeInv /\ AddersCounted
<1>1. Init => Inv
  <2> SUFFICES ASSUME Init PROVE TypeInv /\ AddersCounted
    OBVIOUS
  <2>1. TypeInv
    BY ContactsBegin
  <2>2. Live = {} /\ Adders = {}
    BY NothingHeld DEF Init, Live, Absent, Adders
  <2>3. Cardinality(Requests) # 0
    BY ContactBounds, FS_EmptySet
  <2> QED
    BY <2>1, <2>2, <2>3, FS_EmptySet, CountedSets, ContactBounds DEF AddersCounted
<1>2. Inv /\ [Next]_vars => Inv'
  BY TypesPreserved, AddersStayCounted
<1>3. Inv => OvershootBounded
  BY CountedSets, ContactBounds DEF AddersCounted, OvershootBounded
<1> QED
  BY <1>1, <1>2, <1>3, PTL DEF Spec

(* When handlers come one at a time, the limit holds.                      *)
THEOREM LimitAlone ==
    ASSUME Lone
    PROVE  Spec => []WithinLimit
<1>1. Cardinality(Requests) = 1
  <2>1. PICK r : Requests = {r}
    BY ContactBounds DEF Lone
  <2> QED
    BY <2>1, FS_Singleton
<1>2. OvershootBounded => WithinLimit
  BY <1>1, CountedSets, ContactBounds DEF OvershootBounded, WithinLimit
<1> QED
  BY <1>2, Overshoot, PTL
-----------------------------------------------------------------------------
(* Handlers one at a time                                                  *)

\* A handler about to promote its contact has marked all the others.
PromotesAlone ==
    \A r \in Requests :
        (At(r, "save") \/ At(r, "confirm")) /\ call[r].primary /\ ~ call[r].seen.primary
          => \A i \in Live : contact[i].primary => i \in call[r].marked

\* With one handler, whatever it did last is all that calls hold.
LEMMA NothingUnderWay ==
    ASSUME TypeInv, Lone, NEW r \in Requests, Finish(r)
    PROVE  \A q \in Requests : At(q, "idle")'
BY NothingHeld DEF Finish, Hold, TypeInv, TypeOK, Lone, At

LEMMA PrimaryStays ==
    ASSUME TypeInv, Lone, AtMostOnePrimary, PromotesAlone, [Next]_vars
    PROVE  AtMostOnePrimary' /\ PromotesAlone'
<1>a. ASSUME contact' = contact PROVE AtMostOnePrimary' /\ Live' = Live
  BY <1>a DEF AtMostOnePrimary, Live
<1>b. ASSUME \A q \in Requests : At(q, "idle")' PROVE PromotesAlone'
  BY <1>b DEF PromotesAlone, At
<1>c. ASSUME NEW r \in Requests, ~ At(r, "idle"),
             contact' = Written(r) \/
               \E i \in Ids : contact' = [Written(r) EXCEPT ![i].verified = TRUE],
             At(r, "save") \/ At(r, "confirm")
      PROVE  AtMostOnePrimary'
  <2> SUFFICES ASSUME NEW i \in Live, NEW j \in Live, contact'[i].primary, contact'[j].primary
               PROVE  i = j
    BY <1>c, TableWritten DEF AtMostOnePrimary
  <2>1. \A k \in Ids :
          contact'[k].primary =>
            \/ contact[k].primary /\ k \notin call[r].marked
                 /\ ~ (k = call[r].id /\ call[r].seen.primary # call[r].primary)
            \/ k = call[r].id /\ call[r].seen.primary # call[r].primary /\ call[r].primary
    BY <1>c, TableWritten
  <2>2. i \in Ids /\ j \in Ids
    BY DEF Live
  <2>3. call[r].seen.primary \in BOOLEAN /\ call[r].primary \in BOOLEAN
    BY DEF TypeInv, TypeOK, Call, Contact
  <2>4. CASE call[r].seen.primary # call[r].primary /\ call[r].primary
    <3>1. \A k \in Live : contact[k].primary => k \in call[r].marked
      BY <1>c, <2>3, <2>4 DEF PromotesAlone
    <3> QED
      BY <2>1, <2>2, <3>1
  <2>5. CASE ~ (call[r].seen.primary # call[r].primary /\ call[r].primary)
    BY <2>1, <2>2, <2>5 DEF AtMostOnePrimary
  <2> QED
    BY <2>4, <2>5
<1>1. ASSUME NEW r \in Requests, Starts(r) PROVE AtMostOnePrimary' /\ PromotesAlone'
  <2>1. /\ contact' = contact
        /\ At(r, "save")' \/ At(r, "confirm")' => (call'[r].primary => call'[r].seen.primary)
    BY <1>1, BeginStep DEF Starts, TypeInv
  <2> QED
    BY <1>a, <2>1 DEF PromotesAlone, Lone, At
<1>2. ASSUME NEW r \in Requests, Invalidate(r) PROVE AtMostOnePrimary' /\ PromotesAlone'
  <2>1. Mark(r, "issue", Unused(call[r].phone)) /\ Unused(call[r].phone) \in SUBSET Nat
    BY <1>2, RowsAreNumbers DEF Invalidate, TypeInv
  <2>2. call'[r].pc = "issue"
    BY <2>1, MarkStep DEF TypeInv
  <2> QED
    BY <1>2, <1>a, <2>2 DEF Invalidate, PromotesAlone, Lone, At
<1>3. ASSUME NEW r \in Requests, Demote(r) PROVE AtMostOnePrimary' /\ PromotesAlone'
  <2> DEFINE rows == {i \in Live : contact[i].primary}
             p == IF call[r].job = "verify" THEN "confirm" ELSE "save"
  <2>1. Mark(r, p, rows) /\ rows \in SUBSET Nat /\ p \in {"issue", "confirm", "save"}
    BY <1>3, RowsAreNumbers DEF Demote, TypeInv
  <2>2. \A i \in Live : contact[i].primary => i \in rows
    OBVIOUS
  <2> HIDE DEF rows, p
  <2>3. call'[r].marked = rows
    BY <2>1, MarkStep DEF TypeInv
  <2>4. contact' = contact
    BY <1>3 DEF Demote
  <2> QED
    BY <1>a, <2>2, <2>3, <2>4 DEF PromotesAlone, Lone
<1>4. ASSUME NEW r \in Requests, IssueCode(r) PROVE AtMostOnePrimary' /\ PromotesAlone'
  <2>1. PromotesAlone'
    BY <1>4, <1>b, NothingUnderWay DEF IssueCode
  <2>2. CASE call[r].job = "resend"
    BY <1>4, <1>a, <2>1, <2>2 DEF IssueCode
  <2>3. CASE call[r].job # "resend"
    <3>1. PICK i \in Ids : /\ i \notin Live /\ Live' = Live \cup {i}
                           /\ ~ contact'[i].primary
                           /\ \A j \in Ids : j # i => contact'[j] = contact[j]
      BY <1>4, <2>3, ContactAdded
    <3>2. AtMostOnePrimary'
      BY <3>1 DEF AtMostOnePrimary, Live
    <3> QED
      BY <2>1, <3>2
  <2> QED
    BY <2>2, <2>3
<1>5. ASSUME NEW r \in Requests, Reject(r) \/ Abort(r)
      PROVE  AtMostOnePrimary' /\ PromotesAlone'
  BY <1>5, <1>a, <1>b, NothingUnderWay DEF Reject, Abort
<1>6. ASSUME NEW r \in Requests, Confirm(r) PROVE AtMostOnePrimary' /\ PromotesAlone'
  <2>1. contact' = Written(r) \/
          \E i \in Ids : contact' = [Written(r) EXCEPT ![i].verified = TRUE]
    BY <1>6 DEF Confirm, Live
  <2>2. At(r, "confirm") /\ ~ At(r, "idle") /\ Finish(r)
    BY <1>6 DEF Confirm, At
  <2> QED
    BY <1>b, <1>c, <2>1, <2>2, NothingUnderWay
<1>7. ASSUME NEW r \in Requests, Save(r) PROVE AtMostOnePrimary' /\ PromotesAlone'
  <2>1. At(r, "save") /\ ~ At(r, "idle") /\ Finish(r) /\ contact' = Written(r)
    BY <1>7 DEF Save, At
  <2> QED
    BY <1>b, <1>c, <2>1, NothingUnderWay
<1>8. ASSUME NEW r \in Requests, Delete(r) PROVE AtMostOnePrimary' /\ PromotesAlone'
  <2>1. AtMostOnePrimary'
    BY <1>8, ContactDeleted DEF AtMostOnePrimary, Live
  <2> QED
    BY <1>8, <1>b, <2>1, NothingUnderWay DEF Delete
<1>9. ASSUME Expire \/ AddressAlert \/ UNCHANGED vars
      PROVE  AtMostOnePrimary' /\ PromotesAlone'
  <2>1. contact' = contact /\ call' = call
    BY <1>9 DEF Expire, AddressAlert, vars
  <2> QED
    BY <1>a, <2>1 DEF PromotesAlone, At
<1> QED
  BY <1>1, <1>2, <1>3, <1>4, <1>5, <1>6, <1>7, <1>8, <1>9 DEF Next, Starts

(* Promotion by verification, by update and by PUT /primary, each a bulk   *)
(* UPDATE the session does not see and a column that may not have changed, *)
(* leaves one primary contact at most when handlers come one at a time.    *)
THEOREM OnePrimary ==
    ASSUME Lone
    PROVE  Spec => []AtMostOnePrimary
<1> DEFINE Inv == TypeInv /\ AtMostOnePrimary /\ PromotesAlone
<1>1. Init => Inv
  BY ContactsBegin, NothingHeld DEF Init, AtMostOnePrimary, PromotesAlone, Live, Absent, At
<1>2. Inv /\ [Next]_vars => Inv'
  BY TypesPreserved, PrimaryStays
<1>3. Inv => AtMostOnePrimary
  OBVIOUS
<1> QED
  BY <1>1, <1>2, <1>3, PTL DEF Spec

\* A handler about to issue a code has marked every unused one of its number.
IssuesAlone == \A r \in Requests : At(r, "issue") => Unused(call[r].phone) \subseteq call[r].marked

\* A code being checked is unused, with the attempts that were read.
ChecksAreFresh ==
    \A r \in Requests :
        call[r].pc \in {"reject", "confirm"} \/ (At(r, "demote") /\ call[r].job = "verify")
          => /\ call[r].record \in Codes
             /\ ~ code[call[r].record].used
             /\ call[r].tries = code[call[r].record].attempts

OneUnused == \A p \in Phones : \A c, d \in Unused(p) : c = d

\* Every wrong guess was counted.
GuessesCounted ==
    \A c \in 1 .. MaxCodes :
        /\ c \in Codes => wrong[c] <= code[c].attempts
        /\ c \notin Codes => wrong[c] = 0

\* A contact that is not verified never was.
UnverifiedUnproved ==
    \A i \in Ids :
        contact[i].state = "none" \/ (i \in Live /\ ~ contact[i].verified) => proof[i] = NoCode

Verifications == CodesVerifyOnce /\ UnverifiedUnproved

CodesInv == IssuesAlone /\ ChecksAreFresh /\ OneUnused /\ GuessesCounted /\ Verifications

\* Verified contacts stay so by the code they were verified with.
LEMMA VerificationsStay ==
    ASSUME Verifications, Codes \subseteq Codes',
           \A c \in Codes : code[c].used => code'[c].used,
           proof' = proof,
           \A i \in Ids :
              /\ contact'[i].state = "none" => contact[i].state = "none"
              /\ i \in Live' /\ contact'[i].verified => i \in Live /\ contact[i].verified
              /\ i \in Live' /\ ~ contact'[i].verified =>
                   contact[i].state = "none" \/ (i \in Live /\ ~ contact[i].verified)
    PROVE  Verifications'
<1>0. NoCode \notin Codes /\ \A i \in Live' : i \in Ids
  BY DEF NoCode, Codes, Live
<1>1. \A i \in Live' : contact'[i].verified => proof'[i] \in Codes' /\ code'[proof'[i]].used
  BY <1>0 DEF Verifications, CodesVerifyOnce
<1>2. ASSUME NEW i \in Live', NEW j \in Live', contact'[i].verified, proof'[i] = proof'[j]
      PROVE  i = j
  <2>1. i \in Live /\ contact[i].verified /\ proof[i] \in Codes /\ proof[j] = proof[i]
    BY <1>0, <1>2 DEF Verifications, CodesVerifyOnce
  <2>2. j \in Live
    BY <1>0, <2>1 DEF Verifications, UnverifiedUnproved
  <2> QED
    BY <2>1, <2>2 DEF Verifications, CodesVerifyOnce
<1>3. UnverifiedUnproved'
  BY DEF Verifications, UnverifiedUnproved
<1> QED
  BY <1>1, <1>2, <1>3 DEF Verifications, CodesVerifyOnce

LEMMA CodesStay ==
    ASSUME TypeInv, Lone, CodesInv, [Next]_vars
    PROVE  CodesInv'
<1> USE DEF CodesInv
<1>u. \A p : \A c : c \in Unused(p) <=> c \in Codes /\ code[c].phone = p /\ ~ code[c].used
  BY DEF Unused
<1>t. \A c \in Codes : c \in 1 .. MaxCodes /\ code[c] \in Code
  BY CodesTyped DEF TypeInv
<1>n. ASSUME \A q \in Requests : At(q, "idle")' PROVE IssuesAlone' /\ ChecksAreFresh'
  BY <1>n DEF IssuesAlone, ChecksAreFresh, At
<1>c. ASSUME code' = code
      PROVE  /\ Codes' = Codes /\ OneUnused'
             /\ \A p : Unused(p)' = Unused(p)
             /\ UNCHANGED wrong => GuessesCounted'
  BY <1>c DEF Codes, Unused, OneUnused, GuessesCounted
<1>v. ASSUME code' = code, proof' = proof, contact' = contact PROVE Verifications'
  BY <1>v DEF Verifications, CodesVerifyOnce, UnverifiedUnproved, Codes, Live
<1>1. ASSUME NEW r \in Requests, Starts(r) PROVE CodesInv'
  <2>1. /\ UNCHANGED <<contact, code, observed>>
        /\ ~ At(r, "issue")'
        /\ call'[r].pc \in {"reject", "confirm"}
                           \/ (At(r, "demote")' /\ call'[r].job = "verify")
             => /\ call'[r].record \in Codes
                /\ ~ code[call'[r].record].used
                /\ call'[r].tries = code[call'[r].record].attempts
    BY <1>1, BeginStep DEF Starts, TypeInv
  <2>2. IssuesAlone' /\ ChecksAreFresh'
    BY <1>c, <2>1 DEF IssuesAlone, ChecksAreFresh, Lone, At
  <2> QED
    BY <1>c, <1>v, <2>1, <2>2 DEF observed
<1>2. ASSUME NEW r \in Requests, Invalidate(r) PROVE CodesInv'
  <2>1. Mark(r, "issue", Unused(call[r].phone)) /\ Unused(call[r].phone) \in SUBSET Nat
    BY <1>2, RowsAreNumbers DEF Invalidate, TypeInv
  <2>2. /\ call'[r].pc = "issue" /\ call'[r].marked = Unused(call[r].phone)
        /\ call'[r].phone = call[r].phone
    BY <2>1, MarkStep DEF TypeInv
  <2>3. UNCHANGED <<contact, code, observed>>
    BY <1>2 DEF Invalidate
  <2>4. IssuesAlone' /\ ChecksAreFresh'
    BY <1>c, <2>2, <2>3 DEF IssuesAlone, ChecksAreFresh, Lone, At
  <2> QED
    BY <1>c, <1>v, <2>3, <2>4 DEF observed
<1>3. ASSUME NEW r \in Requests, Demote(r) PROVE CodesInv'
  <2> DEFINE rows == {i \in Live : contact[i].primary}
             p == IF call[r].job = "verify" THEN "confirm" ELSE "save"
  <2>1. Mark(r, p, rows) /\ rows \in SUBSET Nat /\ p \in {"issue", "confirm", "save"}
    BY <1>3, RowsAreNumbers DEF Demote, TypeInv
  <2>2. p \in {"confirm", "save"} /\ (p = "confirm" => call[r].job = "verify")
    OBVIOUS
  <2> HIDE DEF rows, p
  <2>3. /\ call'[r].pc = p /\ call'[r].record = call[r].record
        /\ call'[r].tries = call[r].tries
    BY <2>1, MarkStep DEF TypeInv
  <2>4. UNCHANGED <<contact, code, observed>> /\ At(r, "demote")
    BY <1>3 DEF Demote
  <2>5. IssuesAlone' /\ ChecksAreFresh'
    BY <1>c, <2>2, <2>3, <2>4 DEF IssuesAlone, ChecksAreFresh, Lone, At
  <2> QED
    BY <1>c, <1>v, <2>4, <2>5 DEF observed
<1>4. ASSUME NEW r \in Requests, IssueCode(r) PROVE CodesInv'
  <2> DEFINE new == Len(code) + 1
  <2>1. /\ Codes' = Codes \cup {new}
        /\ \A c \in Codes :
              /\ code'[c].phone = code[c].phone
              /\ code'[c].attempts = code[c].attempts
              /\ code[c].used => code'[c].used
              /\ c \in call[r].marked => code'[c].used
        /\ code'[new].phone = call[r].phone
        /\ code'[new].attempts = 0
        /\ ~ code'[new].used
    BY <1>4, CodesIssued DEF TypeInv
  <2>2. At(r, "issue") /\ Finish(r) /\ UNCHANGED observed
    BY <1>4 DEF IssueCode
  <2>3. new \notin Codes
    BY CodesTyped DEF Codes, TypeInv
  <2> HIDE DEF new
  <2>4. IssuesAlone' /\ ChecksAreFresh'
    BY <1>n, <2>2, NothingUnderWay
  <2>5. OneUnused'
    <3> SUFFICES ASSUME NEW p \in Phones, NEW c \in Unused(p)', NEW d \in Unused(p)'
                 PROVE  c = d
      BY DEF OneUnused
    <3>1. /\ c \in Codes' /\ code'[c].phone = p /\ ~ code'[c].used
          /\ d \in Codes' /\ code'[d].phone = p /\ ~ code'[d].used
      BY DEF Unused
    <3>2. ASSUME NEW e \in Codes, code'[e].phone = p, ~ code'[e].used
          PROVE  e \in Unused(p) /\ p # call[r].phone
      <4>1. e \in Unused(p)
        BY <1>u, <2>1, <3>2
      <4>2. e \notin call[r].marked
        BY <2>1, <3>2
      <4> QED
        BY <2>2, <4>1, <4>2 DEF IssuesAlone
    <3>3. CASE p = call[r].phone
      BY <2>1, <3>1, <3>2, <3>3
    <3>4. CASE p # call[r].phone
      <4>1. c \in Codes /\ d \in Codes
        BY <2>1, <3>1, <3>4
      <4> QED
        BY <3>1, <3>2, <4>1 DEF OneUnused
    <3> QED
      BY <3>3, <3>4
  <2>6. GuessesCounted'
    BY <2>1, <2>2, <2>3 DEF GuessesCounted, observed
  <2>7. Verifications'
    <3>1. \A i \in Ids :
             /\ contact'[i].state = "none" => contact[i].state = "none"
             /\ i \in Live' /\ contact'[i].verified => i \in Live /\ contact[i].verified
             /\ i \in Live' /\ ~ contact'[i].verified =>
                  contact[i].state = "none" \/ (i \in Live /\ ~ contact[i].verified)
      <4>1. CASE call[r].job = "resend"
        BY <1>4, <4>1 DEF IssueCode, Live
      <4>2. CASE call[r].job # "resend"
        <5>1. PICK i \in Ids : /\ contact[i].state = "none" /\ Live' = Live \cup {i}
                               /\ ~ contact'[i].verified
                               /\ \A j \in Ids : j # i => contact'[j] = contact[j]
          BY <1>4, <4>2, ContactAdded
        <5> QED
          BY <5>1
      <4> QED
        BY <4>1, <4>2
    <3>2. proof' = proof
      BY <2>2 DEF observed
    <3> QED
      BY <2>1, <3>1, <3>2, VerificationsStay
  <2> QED
    BY <2>4, <2>5, <2>6, <2>7
<1>5. ASSUME NEW r \in Requests, Reject(r) PROVE CodesInv'
  <2> DEFINE c == call[r].record
  <2>1. /\ Codes' = Codes /\ c \in Codes
        /\ code'[c].attempts = call[r].tries + 1
        /\ \A d \in Codes : /\ code'[d].phone = code[d].phone
                            /\ code'[d].used = code[d].used
                            /\ d # c => code'[d] = code[d]
    BY <1>5, CodesCounted DEF TypeInv
  <2>2. /\ At(r, "reject") /\ Finish(r) /\ UNCHANGED <<contact, proof, alerted>>
        /\ wrong' = [wrong EXCEPT ![c] = @ + 1]
        /\ call[r].tries = code[c].attempts
    BY <1>5 DEF Reject, ChecksAreFresh, At
  <2>3. wrong \in [1 .. MaxCodes -> Nat]
    BY DEF TypeInv, TypeOK
  <2> HIDE DEF c
  <2>4. IssuesAlone' /\ ChecksAreFresh'
    BY <1>n, <2>2, NothingUnderWay
  <2>5. OneUnused'
    BY <2>1 DEF OneUnused, Unused
  <2>6. GuessesCounted'
    <3>1. code[c].attempts \in Nat
      BY <1>t, <2>1, ContactBounds DEF Code
    <3>2. wrong'[c] <= code'[c].attempts
      BY <1>t, <2>1, <2>2, <2>3, <3>1 DEF GuessesCounted
    <3>3. \A d \in 1 .. MaxCodes : d # c => wrong'[d] = wrong[d]
      BY <2>2, <2>3
    <3> QED
      BY <2>1, <3>2, <3>3 DEF GuessesCounted
  <2>7. Verifications'
    BY <2>1, <2>2, VerificationsStay DEF Live
  <2> QED
    BY <2>4, <2>5, <2>6, <2>7
<1>6. ASSUME NEW r \in Requests, Confirm(r) PROVE CodesInv'
  <2> DEFINE c == call[r].record
             i == call[r].id
  <2>1. /\ Codes' = Codes /\ c \in Codes
        /\ code'[c].phone = code[c].phone /\ code'[c].used
        /\ code'[c].attempts = call[r].tries + 1
        /\ \A d \in Codes : d # c => code'[d] = code[d]
    BY <1>6, CodesSpent DEF TypeInv
  <2>2. /\ At(r, "confirm") /\ Finish(r) /\ UNCHANGED wrong
        /\ call[r].tries = code[c].attempts /\ ~ code[c].used
        /\ i \in Live /\ i \in Ids
        /\ contact' = [Written(r) EXCEPT ![i].verified = TRUE]
        /\ proof' = [proof EXCEPT ![i] = c]
    BY <1>6 DEF Confirm, ChecksAreFresh, At, Live
  <2>3. proof \in [Ids -> 0 .. MaxCodes]
    BY DEF TypeInv, TypeOK
  <2>4. \A j \in Ids : Written(r)[j].verified = contact[j].verified
    BY WrittenRow DEF TypeInv
  <2>5. \A j \in Ids : j # i => contact'[j].verified = contact[j].verified
    BY <2>2, <2>4 DEF Written
  <2>6. Live' = Live
    BY <2>2, TableWritten DEF At
  <2>11. \A j \in Ids : contact'[j].state = contact[j].state
    BY <2>2, TableWritten DEF At
  <2> HIDE DEF c, i
  <2>7. IssuesAlone' /\ ChecksAreFresh'
    BY <1>n, <2>2, NothingUnderWay
  <2>8. OneUnused'
    BY <2>1 DEF OneUnused, Unused
  <2>9. GuessesCounted'
    <3>1. code[c].attempts \in Nat /\ wrong[c] \in Nat
      BY <1>t, <2>1, ContactBounds DEF Code, TypeInv, TypeOK
    <3> QED
      BY <1>t, <2>1, <2>2, <3>1 DEF GuessesCounted
  <2>10. Verifications'
    <3>1. proof'[i] = c /\ \A j \in Ids : j # i => proof'[j] = proof[j]
      BY <2>2, <2>3
    <3>2. \A j \in Live : j # i => proof[j] # c
      <4>1. \A j \in Live : contact[j].verified => proof[j] # c
        BY <2>2 DEF Verifications, CodesVerifyOnce
      <4>2. \A j \in Live : ~ contact[j].verified => proof[j] = NoCode
        BY DEF Verifications, UnverifiedUnproved, Live
      <4>3. NoCode # c
        BY <2>1 DEF NoCode, Codes
      <4> QED
        BY <4>1, <4>2, <4>3
    <3>3. \A j \in Live : j \in Ids
      BY DEF Live
    <3>4. contact'[i].verified
      <4>1. Written(r)[i] \in Contact /\ i \in DOMAIN Written(r)
        BY <2>2, WrittenRow DEF TypeInv, Written
      <4> DEFINE W == Written(r)
      <4>2. contact' = [W EXCEPT ![i].verified = TRUE] /\ W[i] \in Contact /\ i \in DOMAIN W
        BY <2>2, <4>1
      <4> HIDE DEF W
      <4> QED
        BY <4>2 DEF Contact
    <3>5. \A j \in Live' : contact'[j].verified => proof'[j] \in Codes' /\ code'[proof'[j]].used
      BY <2>1, <2>5, <2>6, <3>1, <3>3 DEF Verifications, CodesVerifyOnce
    <3>6. ASSUME NEW j \in Live', NEW k \in Live', contact'[j].verified, proof'[j] = proof'[k]
          PROVE  j = k
      BY <2>5, <2>6, <3>1, <3>2, <3>3, <3>6 DEF Verifications, CodesVerifyOnce
    <3>7. UnverifiedUnproved'
      BY <2>2, <2>5, <2>6, <2>11, <3>1, <3>4 DEF Verifications, UnverifiedUnproved, Live
    <3> QED
      BY <3>5, <3>6, <3>7 DEF Verifications, CodesVerifyOnce
  <2> QED
    BY <2>7, <2>8, <2>9, <2>10
<1>7. ASSUME NEW r \in Requests, Save(r) PROVE CodesInv'
  <2>1. At(r, "save") /\ Finish(r) /\ contact' = Written(r) /\ UNCHANGED <<code, observed>>
    BY <1>7 DEF Save
  <2>2. \A j \in Ids : Written(r)[j].verified = contact[j].verified
    BY WrittenRow DEF TypeInv
  <2>3. Live' = Live /\ \A j \in Ids : contact'[j].state = contact[j].state
    BY <2>1, TableWritten DEF At
  <2>4. IssuesAlone' /\ ChecksAreFresh'
    BY <1>n, <2>1, NothingUnderWay
  <2>5. Verifications'
    BY <1>c, <2>1, <2>2, <2>3, VerificationsStay DEF Live, observed
  <2> QED
    BY <1>c, <2>1, <2>4, <2>5 DEF observed
<1>8. ASSUME NEW r \in Requests, Delete(r) PROVE CodesInv'
  <2>1. Finish(r) /\ UNCHANGED <<code, observed>>
    BY <1>8 DEF Delete
  <2>2. IssuesAlone' /\ ChecksAreFresh'
    BY <1>n, <2>1, NothingUnderWay
  <2>3. /\ Live' = Live \ {call[r].id} /\ contact'[call[r].id].state = "deleted"
        /\ \A j \in Ids : j # call[r].id => contact'[j] = contact[j]
    BY <1>8, ContactDeleted
  <2>4. Verifications'
    BY <1>c, <2>1, <2>3, VerificationsStay DEF Live, observed
  <2> QED
    BY <1>c, <2>1, <2>2, <2>4 DEF observed
<1>9. ASSUME NEW r \in Requests, Abort(r) PROVE CodesInv'
  <2>1. Finish(r) /\ UNCHANGED <<contact, code, observed>>
    BY <1>9 DEF Abort
  <2>2. IssuesAlone' /\ ChecksAreFresh'
    BY <1>n, <2>1, NothingUnderWay
  <2> QED
    BY <1>c, <1>v, <2>1, <2>2 DEF observed
<1>10. ASSUME Expire PROVE CodesInv'
  <2>1. /\ Codes' = Codes
        /\ \A d \in Codes : /\ code'[d].phone = code[d].phone
                            /\ code'[d].used = code[d].used
                            /\ code'[d].attempts = code[d].attempts
        /\ UNCHANGED <<contact, call, observed>>
    BY <1>10, CodesExpired DEF Expire, TypeInv
  <2>2. \A p : Unused(p)' = Unused(p)
    BY <2>1 DEF Unused
  <2>3. IssuesAlone' /\ ChecksAreFresh' /\ OneUnused' /\ GuessesCounted'
    BY <2>1, <2>2 DEF IssuesAlone, ChecksAreFresh, OneUnused, GuessesCounted, At, observed
  <2>4. Verifications'
    BY <2>1, VerificationsStay DEF Live, observed
  <2> QED
    BY <2>3, <2>4
<1>11. ASSUME AddressAlert \/ UNCHANGED vars PROVE CodesInv'
  <2>1. UNCHANGED <<contact, code, call, proof, wrong>>
    BY <1>11 DEF AddressAlert, vars
  <2>2. IssuesAlone' /\ ChecksAreFresh'
    BY <1>c, <2>1 DEF IssuesAlone, ChecksAreFresh, At
  <2> QED
    BY <1>c, <1>v, <2>1, <2>2
<1> QED
  BY <1>1, <1>2, <1>3, <1>4, <1>5, <1>6, <1>7, <1>8, <1>9, <1>10, <1>11 DEF Next, Starts

LEMMA CodesAlone ==
    ASSUME Lone
    PROVE  Spec => [](TypeInv /\ CodesInv)
<1> DEFINE Inv == TypeInv /\ CodesInv
<1>1. Init => Inv
  <2> SUFFICES ASSUME Init PROVE CodesInv
    BY ContactsBegin
  <2>1. Codes = {} /\ Live = {}
    BY DEF Init, Codes, Live, Absent
  <2>2. IssuesAlone /\ ChecksAreFresh
    BY NothingHeld DEF Init, IssuesAlone, ChecksAreFresh, At
  <2>3. OneUnused
    BY <2>1 DEF OneUnused, Unused
  <2>4. GuessesCounted
    BY <2>1 DEF Init, GuessesCounted
  <2>5. Verifications
    BY <2>1 DEF Init, Verifications, CodesVerifyOnce, UnverifiedUnproved
  <2> QED
    BY <2>2, <2>3, <2>4, <2>5 DEF CodesInv
<1>2. Inv /\ [Next]_vars => Inv'
  BY TypesPreserved, CodesStay
<1> QED
  BY <1>1, <1>2, PTL DEF Spec

(* POST /contacts and /resend-otp invalidate the earlier codes of a number *)
(* before adding one: when handlers come one at a time a number has one    *)
(* live code at most, also after its contact was deleted and added again.  *)
THEOREM OneCode ==
    ASSUME Lone
    PROVE  Spec => []OneLiveCode
<1>1. TypeInv /\ CodesInv => OneLiveCode
  <2> SUFFICES ASSUME TypeInv, CodesInv, NEW p \in Phones
               PROVE  Cardinality(Unused(p)) <= 1
    BY DEF OneLiveCode
  <2>1. CASE Unused(p) = {}
    BY <2>1, FS_EmptySet
  <2>2. CASE Unused(p) # {}
    <3>1. PICK c : Unused(p) = {c}
      BY <2>2 DEF CodesInv, OneUnused
    <3>2. Cardinality(Unused(p)) = 1
      BY <3>1, FS_Singleton
    <3> QED
      BY <3>2
  <2> QED
    BY <2>1, <2>2
<1> QED
  BY <1>1, CodesAlone, PTL

(* verify_contact_otp answers no more wrong guesses of a code than the     *)
(* limit, whatever contacts of its number they were made for.              *)
THEOREM FewGuesses ==
    ASSUME Lone
    PROVE  Spec => []GuessesBounded
<1>1. TypeInv /\ CodesInv => GuessesBounded
  <2> SUFFICES ASSUME TypeInv, CodesInv, NEW c \in 1 .. MaxCodes
               PROVE  wrong[c] <= MaxAttempts
    BY DEF GuessesBounded
  <2>1. CASE c \in Codes
    <3>1. wrong[c] <= code[c].attempts
      BY <2>1 DEF CodesInv, GuessesCounted
    <3>3. wrong[c] \in Nat
      BY DEF TypeInv, TypeOK
    <3>2. code[c].attempts \in 0 .. MaxAttempts
      <4>1. code[c] \in Code
        BY <2>1, CodesTyped DEF TypeInv
      <4> QED
        BY <4>1 DEF Code
    <3> QED
      BY <3>1, <3>2, <3>3, ContactBounds
  <2>2. CASE c \notin Codes
    BY <2>2, ContactBounds DEF CodesInv, GuessesCounted
  <2> QED
    BY <2>1, <2>2
<1> QED
  BY <1>1, CodesAlone, PTL

(* With one handler at a time a contact is verified by a code that is      *)
(* spent and that verified no other contact.  Nothing is said of the       *)
(* contact it was sent for: codes belong to numbers and outlive contacts.  *)
THEOREM VerifiedOnce ==
    ASSUME Lone
    PROVE  Spec => []CodesVerifyOnce
<1>1. TypeInv /\ CodesInv => CodesVerifyOnce
  BY DEF CodesInv, Verifications
<1> QED
  BY <1>1, CodesAlone, PTL

-----------------------------------------------------------------------------
(* What only an update of a contact undoes                                 *)

\* What a handler holds is of the number its contact has.
OfItsNumber(l) ==
    /\ l.job # "update"
    /\ l.pc \in {"demote", "confirm", "save"} =>
          /\ l.seen.phone = l.phone
          /\ l.id \in Ids /\ contact[l.id].state # "none"
          /\ contact[l.id].state = "live" => contact[l.id].phone = l.phone
    /\ l.pc \in {"reject", "confirm"} \/ (l.pc = "demote" /\ l.job = "verify") =>
          l.record \in Codes /\ code[l.record].phone = l.phone

CallsOfNumbers == \A r \in Requests : OfItsNumber(call[r])

ProofsOfNumbers ==
    \A i \in Live : contact[i].verified =>
        proof[i] \in Codes /\ code[proof[i]].phone = contact[i].phone

NumbersInv == CallsOfNumbers /\ ProofsOfNumbers

\* No step of these gives a contact or a code another number.
NumbersKept ==
    /\ Codes \subseteq Codes' /\ \A c \in Codes : code'[c].phone = code[c].phone
    /\ \A i \in Ids : contact[i].state # "none" =>
          /\ contact'[i].state # "none"
          /\ contact'[i].state = "live" =>
                contact[i].state = "live" /\ contact'[i].phone = contact[i].phone

LEMMA CallsKept ==
    ASSUME TypeOK, NumbersInv, NumbersKept, NEW r \in Requests, NEW l, OfItsNumber(l),
           \A q \in Requests : call'[q] = IF q = r THEN l ELSE call[q]
    PROVE  CallsOfNumbers'
<1>1. \A k : OfItsNumber(k) =>
        /\ k.job # "update"
        /\ k.pc \in {"demote", "confirm", "save"} =>
              /\ k.seen.phone = k.phone
              /\ k.id \in Ids /\ contact'[k.id].state # "none"
              /\ contact'[k.id].state = "live" => contact'[k.id].phone = k.phone
        /\ k.pc \in {"reject", "confirm"} \/ (k.pc = "demote" /\ k.job = "verify") =>
              k.record \in Codes' /\ code'[k.record].phone = k.phone
  BY DEF OfItsNumber, NumbersKept
<1>2. \A q \in Requests : OfItsNumber(call'[q])
  BY DEF NumbersInv, CallsOfNumbers
<1> QED
  BY <1>1, <1>2 DEF CallsOfNumbers, OfItsNumber

LEMMA ProofsKept ==
    ASSUME NumbersInv, NumbersKept, proof' = proof,
           \A i \in Ids : i \in Live' /\ contact'[i].verified => i \in Live /\ contact[i].verified
    PROVE  ProofsOfNumbers'
BY DEF NumbersInv, NumbersKept, ProofsOfNumbers, Live

\* A handler without an update leaves the numbers in the table.
LEMMA NumbersWritten ==
    ASSUME TypeInv, NumbersInv, NEW r \in Requests, call[r].pc \in {"confirm", "save"},
           contact' = Written(r) \/ contact' = [Written(r) EXCEPT ![call[r].id].verified = TRUE]
    PROVE  \A i \in Ids : /\ contact'[i].phone = contact[i].phone
                          /\ contact'[i].state = contact[i].state
                          /\ i # call[r].id \/ contact' = Written(r)
                               => contact'[i].verified = contact[i].verified
<1> DEFINE W == Written(r)
<1>1. call[r].seen.phone = call[r].phone
  BY DEF NumbersInv, CallsOfNumbers, OfItsNumber
<1>2. ASSUME NEW i \in Ids
      PROVE  /\ W[i] \in Contact /\ i \in DOMAIN W
             /\ W[i].phone = contact[i].phone /\ W[i].state = contact[i].state
             /\ W[i].verified = contact[i].verified
  <2>1. contact[i] \in Contact
    BY DEF TypeInv, TypeOK
  <2>2. PICK m : W[i] = [contact[i] EXCEPT !.phone = contact[i].phone, !.primary = m]
    BY <1>1 DEF Written
  <2>3. W[i].phone = contact[i].phone
    BY <2>1, <2>2 DEF Contact
  <2> QED
    BY <2>3, WrittenRow DEF TypeInv, Written
<1> HIDE DEF W
<1>3. contact' = W \/ contact' = [W EXCEPT ![call[r].id].verified = TRUE]
  BY DEF W
<1>4. contact' = Written(r) => contact' = W
  BY DEF W
<1> QED
  BY <1>2, <1>3, <1>4 DEF Contact

LEMMA NumbersStep ==
    ASSUME "update" \notin Operations
    PROVE  TypeInv /\ NumbersInv /\ [Next]_vars => NumbersInv'
<1> SUFFICES ASSUME TypeInv, NumbersInv, [Next]_vars PROVE NumbersInv'
  OBVIOUS
<1>a. TypeOK /\ \A r \in Requests : OfItsNumber(call[r])
  BY DEF TypeInv, NumbersInv, CallsOfNumbers
<1>b. OfItsNumber(Idle)
  BY DEF OfItsNumber, Idle, Local
<1>c. ASSUME NEW r \in Requests, NEW l, Hold(r, l), OfItsNumber(l),
             UNCHANGED <<contact, code, proof>>
      PROVE  NumbersInv'
  <2>1. NumbersKept
    BY <1>c DEF NumbersKept, Codes
  <2>2. \A q \in Requests : call'[q] = IF q = r THEN l ELSE call[q]
    BY <1>a, <1>c DEF Hold, TypeOK
  <2> QED
    BY <1>a, <1>c, <2>1, <2>2, CallsKept, ProofsKept DEF NumbersInv, Live
<1>1. ASSUME NEW r \in Requests, Starts(r) PROVE NumbersInv'
  <2> USE DEF Begin, observed
  <2>1. ASSUME NEW p \in Phones, StartAdd(r, p) PROVE NumbersInv'
    <3>1. OfItsNumber(Adding(p))
      BY DEF OfItsNumber, Adding, Local
    <3> QED
      BY <1>c, <2>1, <3>1 DEF StartAdd
  <2>2. ASSUME NEW i \in Ids, StartResend(r, i) PROVE NumbersInv'
    <3>1. OfItsNumber(Loaded("resend", "invalidate", i))
      BY DEF OfItsNumber, Loaded, Holding, Local
    <3> QED
      BY <1>c, <2>2, <3>1 DEF StartResend
  <2>3. ASSUME NEW i \in Ids, StartPrimary(r, i) PROVE NumbersInv'
    <3>1. OfItsNumber(Holding("primary", "demote", i, contact[i].phone, TRUE))
      BY <2>3 DEF OfItsNumber, Holding, Local, StartPrimary, Live
    <3> QED
      BY <1>c, <2>3, <3>1 DEF StartPrimary
  <2>4. ASSUME NEW i \in Ids, StartDelete(r, i) PROVE NumbersInv'
    <3>1. OfItsNumber(Loaded("delete", "delete", i))
      BY DEF OfItsNumber, Loaded, Holding, Local
    <3> QED
      BY <1>c, <2>4, <3>1 DEF StartDelete
  <2>5. ASSUME NEW i \in Ids, NEW c \in Codes, NEW right \in BOOLEAN, NEW primary \in BOOLEAN,
               StartVerify(r, i, c, right, primary)
        PROVE  NumbersInv'
    <3> DEFINE l == Checking(i, c, right, primary)
    <3>1. i \in Live /\ code[c].phone = contact[i].phone
      BY <2>5 DEF StartVerify, Latest, Unused
    <3>2. /\ l.job = "verify" /\ l.id = i /\ l.seen = contact[i] /\ l.phone = contact[i].phone
          /\ l.record = c /\ l.pc # "save"
      BY DEF Checking, Local
    <3>3. Hold(r, l) /\ UNCHANGED <<contact, code, proof>>
      BY <2>5 DEF StartVerify
    <3> HIDE DEF l
    <3>4. OfItsNumber(l)
      BY <3>1, <3>2 DEF OfItsNumber, Live
    <3> QED
      BY <1>c, <3>3, <3>4
  <2>6. ASSUME NEW i \in Ids, NEW p \in Phones, NEW primary \in BOOLEAN
        PROVE  ~ StartUpdate(r, i, p, primary)
    BY DEF StartUpdate
  <2> QED
    BY <1>1, <2>1, <2>2, <2>3, <2>4, <2>5, <2>6 DEF Starts
\* A handler that marks rows holds what it held before.
<1>d. ASSUME NEW r \in Requests, NEW p \in {"issue", "confirm", "save"}, NEW rows \in SUBSET Nat,
             Mark(r, p, rows), UNCHANGED <<contact, code, proof>>,
             p # "issue" => At(r, "demote"), p = "confirm" => call[r].job = "verify"
      PROVE  NumbersInv'
  <2>1. /\ \A q \in Requests : q # r => call'[q] = call[q]
        /\ call'[r].pc = p /\ call'[r].job = call[r].job /\ call'[r].id = call[r].id
        /\ call'[r].seen = call[r].seen /\ call'[r].phone = call[r].phone
        /\ call'[r].record = call[r].record
    BY <1>a, <1>d, MarkStep
  <2>2. OfItsNumber(call[r])
    BY <1>a
  <2>3. OfItsNumber(call'[r])
    BY <1>d, <2>1, <2>2 DEF OfItsNumber, At
  <2>4. NumbersKept
    BY <1>d DEF NumbersKept, Codes
  <2>5. PICK l : l = call'[r]
    OBVIOUS
  <2>6. OfItsNumber(l) /\ \A q \in Requests : call'[q] = IF q = r THEN l ELSE call[q]
    BY <2>1, <2>3, <2>5
  <2>7. CallsOfNumbers'
    BY <1>a, <2>4, <2>6, CallsKept
  <2> QED
    BY <1>d, <2>4, <2>7, ProofsKept DEF NumbersInv, Live
<1>2. ASSUME NEW r \in Requests, Invalidate(r) PROVE NumbersInv'
  BY <1>a, <1>d, <1>2, RowsAreNumbers DEF Invalidate, observed
<1>3. ASSUME NEW r \in Requests, Demote(r) PROVE NumbersInv'
  <2>1. {i \in Live : contact[i].primary} \in SUBSET Nat
    BY <1>a, RowsAreNumbers
  <2> QED
    BY <1>d, <1>3, <2>1 DEF Demote, observed
<1>4. ASSUME NEW r \in Requests, IssueCode(r) PROVE NumbersInv'
  <2>1. Codes \subseteq Codes' /\ \A c \in Codes : code'[c].phone = code[c].phone
    BY <1>4, CodesIssued DEF TypeInv
  <2>2. \A q \in Requests : call'[q] = IF q = r THEN Idle ELSE call[q]
    BY <1>a, <1>4 DEF IssueCode, Finish, Hold, TypeOK
  <2>3. /\ \A i \in Ids : contact[i].state # "none" => contact'[i] = contact[i]
        /\ \A i \in Ids : i \in Live' /\ contact'[i].verified => i \in Live /\ contact[i].verified
    <3>1. CASE call[r].job = "resend"
      BY <1>4, <3>1 DEF IssueCode, Live
    <3>2. CASE call[r].job # "resend"
      <4>1. PICK i \in Ids : /\ contact[i].state = "none" /\ Live' = Live \cup {i}
                             /\ ~ contact'[i].verified
                             /\ \A j \in Ids : j # i => contact'[j] = contact[j]
        BY <1>4, <3>2, ContactAdded
      <4> QED
        BY <4>1
    <3> QED
      BY <3>1, <3>2
  <2>4. NumbersKept
    BY <2>1, <2>3 DEF NumbersKept
  <2>5. proof' = proof
    BY <1>4 DEF IssueCode, observed
  <2> QED
    BY <1>a, <1>b, <2>2, <2>3, <2>4, <2>5, CallsKept, ProofsKept DEF NumbersInv
<1>5. ASSUME NEW r \in Requests, Reject(r) PROVE NumbersInv'
  <2>1. Codes' = Codes /\ \A c \in Codes : code'[c].phone = code[c].phone
    BY <1>5, CodesCounted DEF TypeInv
  <2>2. UNCHANGED <<contact, proof>> /\ Finish(r)
    BY <1>5 DEF Reject
  <2>3. NumbersKept
    BY <2>1, <2>2 DEF NumbersKept
  <2>4. \A q \in Requests : call'[q] = IF q = r THEN Idle ELSE call[q]
    BY <1>a, <2>2 DEF Finish, Hold, TypeOK
  <2> QED
    BY <1>a, <1>b, <2>2, <2>3, <2>4, CallsKept, ProofsKept DEF NumbersInv, Live
<1>6. ASSUME NEW r \in Requests, Confirm(r) PROVE NumbersInv'
  <2> DEFINE i == call[r].id
             c == call[r].record
  <2>1. /\ Codes' = Codes /\ c \in Codes
        /\ \A d \in Codes : code'[d].phone = code[d].phone
    BY <1>6, CodesSpent DEF TypeInv
  <2>2. /\ At(r, "confirm") /\ i \in Live /\ Finish(r)
        /\ contact' = [Written(r) EXCEPT ![i].verified = TRUE]
        /\ proof' = [proof EXCEPT ![i] = c]
    BY <1>6 DEF Confirm
  <2>3. \A j \in Ids : /\ contact'[j].phone = contact[j].phone
                       /\ contact'[j].state = contact[j].state
                       /\ j # i => contact'[j].verified = contact[j].verified
    BY <2>2, NumbersWritten DEF At
  <2>4. code[c].phone = contact[i].phone
    BY <1>a, <2>2 DEF OfItsNumber, At, Live
  <2>5. NumbersKept
    BY <2>1, <2>3 DEF NumbersKept
  <2>6. \A q \in Requests : call'[q] = IF q = r THEN Idle ELSE call[q]
    BY <1>a, <2>2 DEF Finish, Hold, TypeOK
  <2>7. proof \in [Ids -> 0 .. MaxCodes] /\ i \in Ids
    BY <1>a, <2>2 DEF TypeOK, Live
  <2> HIDE DEF i, c
  <2>8. ASSUME NEW j \in Live', contact'[j].verified
        PROVE  proof'[j] \in Codes' /\ code'[proof'[j]].phone = contact'[j].phone
    <3>1. j \in Ids /\ j \in Live
      BY <2>3 DEF Live
    <3>2. CASE j = i
      BY <2>1, <2>2, <2>3, <2>4, <2>7, <3>2
    <3>3. CASE j # i
      <4>1. proof'[j] = proof[j] /\ contact[j].verified
        BY <2>2, <2>3, <2>7, <2>8, <3>1, <3>3
      <4>2. proof[j] \in Codes /\ code[proof[j]].phone = contact[j].phone
        BY <3>1, <4>1 DEF NumbersInv, ProofsOfNumbers
      <4> QED
        BY <2>1, <2>3, <3>1, <4>1, <4>2
    <3> QED
      BY <3>2, <3>3
  <2> QED
    BY <1>a, <1>b, <2>5, <2>6, <2>8, CallsKept DEF NumbersInv, ProofsOfNumbers
<1>7. ASSUME NEW r \in Requests, Save(r) PROVE NumbersInv'
  <2>1. At(r, "save") /\ Finish(r) /\ contact' = Written(r) /\ UNCHANGED <<code, proof>>
    BY <1>7 DEF Save, observed
  <2>2. \A j \in Ids : /\ contact'[j].phone = contact[j].phone
                       /\ contact'[j].state = contact[j].state
                       /\ contact'[j].verified = contact[j].verified
    BY <2>1, NumbersWritten DEF At
  <2>3. NumbersKept
    BY <2>1, <2>2 DEF NumbersKept, Codes
  <2>4. \A q \in Requests : call'[q] = IF q = r THEN Idle ELSE call[q]
    BY <1>a, <2>1 DEF Finish, Hold, TypeOK
  <2> QED
    BY <1>a, <1>b, <2>1, <2>2, <2>3, <2>4, CallsKept, ProofsKept DEF NumbersInv, Live
<1>8. ASSUME NEW r \in Requests, Delete(r) PROVE NumbersInv'
  <2>1. /\ Live' = Live \ {call[r].id} /\ contact'[call[r].id].state = "deleted"
        /\ \A j \in Ids : j # call[r].id => contact'[j] = contact[j]
    BY <1>8, ContactDeleted
  <2>2. Finish(r) /\ UNCHANGED <<code, proof>>
    BY <1>8 DEF Delete, observed
  <2>3. NumbersKept
    BY <2>1, <2>2 DEF NumbersKept, Codes
  <2>4. \A q \in Requests : call'[q] = IF q = r THEN Idle ELSE call[q]
    BY <1>a, <2>2 DEF Finish, Hold, TypeOK
  <2> QED
    BY <1>a, <1>b, <2>1, <2>2, <2>3, <2>4, CallsKept, ProofsKept DEF NumbersInv
<1>9. ASSUME NEW r \in Requests, Abort(r) PROVE NumbersInv'
  BY <1>b, <1>c, <1>9 DEF Abort, Finish, observed
<1>10. ASSUME UNCHANGED <<contact, call, proof>>,
              Codes' = Codes /\ \A c \in Codes : code'[c].phone = code[c].phone
       PROVE  NumbersInv'
  <2>1. NumbersKept
    BY <1>10 DEF NumbersKept
  <2>2. ProofsOfNumbers'
    BY <1>10, <2>1, ProofsKept DEF Live
  <2>3. CallsOfNumbers'
    BY <1>10 DEF NumbersInv, CallsOfNumbers, OfItsNumber
  <2> QED
    BY <2>2, <2>3 DEF NumbersInv
<1>11. CASE Expire
  <2>1. Codes' = Codes /\ \A d \in Codes : code'[d].phone = code[d].phone
    BY <1>a, <1>11, CodesExpired
  <2> QED
    BY <1>10, <1>11, <2>1 DEF Expire, observed
<1>12. CASE AddressAlert \/ UNCHANGED vars
  BY <1>10, <1>12 DEF AddressAlert, vars, Codes, observed
<1> QED
  BY <1>1, <1>2, <1>3, <1>4, <1>5, <1>6, <1>7, <1>8, <1>9, <1>11, <1>12 DEF Next, Starts

(* As long as no contact is given another number, a contact counts as      *)
(* verified by a code that was sent to the number it has, however many     *)
(* handlers verify, resend, promote, delete and add again meanwhile.       *)
THEOREM OnlyUpdatesUnconfirm ==
    ASSUME "update" \notin Operations
    PROVE  Spec => []VerifiedNumberConfirmed
<1> DEFINE Inv == TypeInv /\ NumbersInv
<1>1. Init => Inv
  <2> SUFFICES ASSUME Init PROVE NumbersInv
    BY ContactsBegin
  <2>1. CallsOfNumbers
    BY DEF Init, CallsOfNumbers, OfItsNumber, Idle, Local
  <2>2. ProofsOfNumbers
    BY DEF Init, ProofsOfNumbers, Live, Absent
  <2> QED
    BY <2>1, <2>2 DEF NumbersInv
<1>2. Inv /\ [Next]_vars => Inv'
  BY TypesPreserved, NumbersStep
<1>3. Inv => VerifiedNumberConfirmed
  BY DEF NumbersInv, ProofsOfNumbers, VerifiedNumberConfirmed
<1> QED
  BY <1>1, <1>2, <1>3, PTL DEF Spec
=============================================================================

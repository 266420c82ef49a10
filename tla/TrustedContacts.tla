--------------------------- MODULE TrustedContacts ---------------------------
(***************************************************************************)
(* The trusted contacts of one user and the one-time codes that confirm    *)
(* them (src/app/routes/contacts.py).  A handler reads, decides, may issue *)
(* a bulk UPDATE whose rows are those committed when it starts, and        *)
(* commits the columns it changed; no row is locked or versioned.  A       *)
(* handler that fails, or that writes to a row deleted meanwhile, is       *)
(* rolled back as a whole.                                                 *)
(***************************************************************************)
EXTENDS Naturals, Sequences, FiniteSets

CONSTANTS
    Phones,        \* telephone numbers
    Requests,      \* handlers that may run at the same time
    Operations,    \* the operations clients use in this instance
    Limit,         \* MAX_TRUSTED_CONTACTS
    MaxAttempts,   \* MAX_OTP_ATTEMPTS
    MaxContacts,   \* bound: contacts created
    MaxCodes       \* bound: codes issued

ASSUME ContactBounds ==
    /\ {Limit, MaxAttempts, MaxContacts, MaxCodes} \subseteq Nat
    /\ Operations \subseteq
          {"add", "resend", "verify", "update", "primary", "delete", "dispatch"}
    /\ IsFiniteSet(Requests) /\ Requests # {}

VARIABLES
    contact,   \* table trusted_contacts
    code,      \* table otp_records of this purpose, in the order of creation
    call,      \* handlers: where they are and what they hold
    proof,     \* observed: the code every contact was confirmed with
    wrong,     \* observed: wrong guesses answered as such, per code
    alerted    \* observed: who the last dispatch addressed

vars == <<contact, code, call, proof, wrong, alerted>>
observed == <<proof, wrong, alerted>>

Ids == 1 .. MaxContacts
Codes == 1 .. Len(code)
NoCode == 0

Absent(state) ==
    [state |-> state, phone |-> "none", primary |-> FALSE, verified |-> FALSE]

Contact == [state : {"none", "live", "deleted"}, phone : Phones \cup {"none"},
            primary : BOOLEAN, verified : BOOLEAN]

Code == [phone : Phones, used : BOOLEAN, attempts : 0 .. MaxAttempts, fresh : BOOLEAN]

\* What a handler keeps: the row it loaded, the values it will write, the code
\* it looked up with its attempts, and the rows of its bulk UPDATE.
Local(pc, job, id, seen, phone, primary, record, tries) ==
    [pc |-> pc, job |-> job, id |-> id, seen |-> seen, phone |-> phone,
     primary |-> primary, record |-> record, tries |-> tries, marked |-> {}]

Idle == Local("idle", "none", 0, Absent("none"), "none", FALSE, NoCode, 0)

Call == [pc : {"idle", "invalidate", "issue", "reject", "demote", "confirm", "save", "delete"},
         job : {"none", "add", "resend", "verify", "update", "primary", "delete"},
         id : Ids \cup {0}, seen : Contact, phone : Phones \cup {"none"},
         primary : BOOLEAN, record : 0 .. MaxCodes, tries : 0 .. MaxAttempts,
         marked : SUBSET Nat]

TypeOK ==
    /\ contact \in [Ids -> Contact]
    /\ code \in Seq(Code) /\ Len(code) <= MaxCodes
    /\ call \in [Requests -> Call]
    /\ proof \in [Ids -> 0 .. MaxCodes]
    /\ wrong \in [1 .. MaxCodes -> Nat]
    /\ alerted \subseteq Ids

Init ==
    /\ contact = [i \in Ids |-> Absent("none")]
    /\ code = <<>>
    /\ call = [r \in Requests |-> Idle]
    /\ proof = [i \in Ids |-> NoCode]
    /\ wrong = [c \in 1 .. MaxCodes |-> 0]
    /\ alerted = {}

Live == {i \in Ids : contact[i].state = "live"}
At(r, p) == call[r].pc = p
Hold(r, local) == call' = [call EXCEPT ![r] = local]
Mark(r, p, rows) == call' = [call EXCEPT ![r].pc = p, ![r].marked = rows]
Finish(r) == Hold(r, Idle)

Begin(r, job, local) ==
    /\ At(r, "idle") /\ job \in Operations
    /\ Hold(r, local)
    /\ UNCHANGED <<contact, code, observed>>

\* The loaded contact, and the values that will be written.
Holding(job, p, i, phone, primary) ==
    Local(p, job, i, contact[i], phone, primary, NoCode, 0)

\* The loaded contact as it is.
Loaded(job, p, i) == Holding(job, p, i, contact[i].phone, contact[i].primary)

-----------------------------------------------------------------------------
(* POST /contacts and POST /contacts/resend-otp                            *)

Adding(p) == Local("invalidate", "add", 0, Absent("none"), p, FALSE, NoCode, 0)

\* Mutant: one too many.
StartAddOneMore(r, p) ==
    /\ Cardinality(Live) <= Limit
    /\ \A i \in Live : contact[i].phone # p
    /\ Begin(r, "add", Adding(p))

StartAdd(r, p) ==
    /\ Cardinality(Live) < Limit
    /\ \A i \in Live : contact[i].phone # p
    /\ Begin(r, "add", Adding(p))

StartResend(r, i) ==
    /\ i \in Live /\ ~ contact[i].verified
    /\ Begin(r, "resend", Loaded("resend", "invalidate", i))

Unused(p) == {c \in Codes : code[c].phone = p /\ ~ code[c].used}

\* Mutant: only a resend invalidates.
InvalidateOnResend(r) ==
    /\ At(r, "invalidate")
    /\ Mark(r, "issue", IF call[r].job = "add" THEN {} ELSE Unused(call[r].phone))
    /\ UNCHANGED <<contact, code, observed>>

\* The bulk UPDATE that marks the earlier codes of the number as used.
Invalidate(r) ==
    /\ At(r, "invalidate")
    /\ Mark(r, "issue", Unused(call[r].phone))
    /\ UNCHANGED <<contact, code, observed>>

NewContact(p) == [state |-> "live", phone |-> p, primary |-> FALSE, verified |-> FALSE]

\* The commit.  A new code and, for POST /contacts, a new contact.
IssueCode(r) ==
    LET used == [c \in Codes |-> [code[c] EXCEPT !.used = @ \/ c \in call[r].marked]]
        new == [phone |-> call[r].phone, used |-> FALSE, attempts |-> 0, fresh |-> TRUE]
    IN /\ At(r, "issue") /\ Len(code) < MaxCodes
       /\ code' = Append(used, new)
       /\ IF call[r].job = "resend"
            THEN UNCHANGED contact
            ELSE \E i \in Ids :
                   /\ contact[i].state = "none"
                   /\ \A j \in 1 .. i - 1 : contact[j].state # "none"
                   /\ contact' = [contact EXCEPT ![i] = NewContact(call[r].phone)]
       /\ Finish(r)
       /\ UNCHANGED observed

-----------------------------------------------------------------------------
(* POST /contacts/verify-otp                                               *)

\* The latest unused code of the number, expired or not.
Latest(c, p) == c \in Unused(p) /\ \A d \in Unused(p) : d <= c

\* A right code goes on to be consumed, a wrong one to be counted.
Checking(i, c, right, asPrimary) ==
    Local(IF ~ right THEN "reject" ELSE IF asPrimary THEN "demote" ELSE "confirm",
          "verify", i, contact[i], contact[i].phone, contact[i].primary \/ asPrimary,
          c, code[c].attempts)

\* Mutant: one attempt too many.
StartVerifyOneMore(r, i, c, right, asPrimary) ==
    /\ i \in Live /\ ~ contact[i].verified
    /\ Latest(c, contact[i].phone)
    /\ code[c].fresh /\ code[c].attempts <= MaxAttempts
    /\ Begin(r, "verify", Checking(i, c, right, asPrimary))

StartVerify(r, i, c, right, asPrimary) ==
    /\ i \in Live /\ ~ contact[i].verified
    /\ Latest(c, contact[i].phone)
    /\ code[c].fresh /\ code[c].attempts < MaxAttempts
    /\ Begin(r, "verify", Checking(i, c, right, asPrimary))

\* Mutant: the error is raised before the commit.
RejectUncounted(r) ==
    /\ At(r, "reject")
    /\ wrong' = [wrong EXCEPT ![call[r].record] = @ + 1]
    /\ Finish(r)
    /\ UNCHANGED <<contact, code, proof, alerted>>

Reject(r) ==
    LET c == call[r].record
    IN /\ At(r, "reject")
       /\ code' = [code EXCEPT ![c].attempts = call[r].tries + 1]
       /\ wrong' = [wrong EXCEPT ![c] = @ + 1]
       /\ Finish(r)
       /\ UNCHANGED <<contact, proof, alerted>>

\* The bulk UPDATE that takes the mark from the primary contacts.
Demote(r) ==
    /\ At(r, "demote")
    /\ Mark(r, IF call[r].job = "verify" THEN "confirm" ELSE "save",
            {i \in Live : contact[i].primary})
    /\ UNCHANGED <<contact, code, observed>>

\* The table after the bulk UPDATE and the UPDATE of the columns of the held
\* contact that differ from what was loaded.
Written(r) ==
    LET held == call[r]
        changes(i, old, new) == i = held.id /\ old # new
    IN [i \in Ids |-> [contact[i] EXCEPT
          !.phone = IF changes(i, held.seen.phone, held.phone) THEN held.phone ELSE @,
          !.primary = IF changes(i, held.seen.primary, held.primary)
                        THEN held.primary ELSE @ /\ i \notin held.marked]]

\* Mutant: the code may be used again.
ConfirmUnspent(r) ==
    LET i == call[r].id
        c == call[r].record
    IN /\ At(r, "confirm") /\ i \in Live
       /\ contact' = [Written(r) EXCEPT ![i].verified = TRUE]
       /\ code' = [code EXCEPT ![c].attempts = call[r].tries + 1]
       /\ proof' = [proof EXCEPT ![i] = c]
       /\ Finish(r)
       /\ UNCHANGED <<wrong, alerted>>

Confirm(r) ==
    LET i == call[r].id
        c == call[r].record
    IN /\ At(r, "confirm") /\ i \in Live
       /\ contact' = [Written(r) EXCEPT ![i].verified = TRUE]
       /\ code' = [code EXCEPT ![c].attempts = call[r].tries + 1, ![c].used = TRUE]
       /\ proof' = [proof EXCEPT ![i] = c]
       /\ Finish(r)
       /\ UNCHANGED <<wrong, alerted>>

-----------------------------------------------------------------------------
(* PUT /contacts/{id}, PUT /contacts/{id}/primary, DELETE /contacts/{id}   *)

\* Mutant: the other contacts keep the mark.
StartUpdateAlone(r, i, p, primary) ==
    /\ i \in Live
    /\ Begin(r, "update", Holding("update", "save", i, p, primary))

\* The schema gives is_primary a default, so that it is always written.
StartUpdate(r, i, p, primary) ==
    LET demotes == primary /\ ~ contact[i].primary
    IN /\ i \in Live
       /\ Begin(r, "update",
                Holding("update", IF demotes THEN "demote" ELSE "save", i, p, primary))

StartPrimary(r, i) ==
    /\ i \in Live
    /\ Begin(r, "primary", Holding("primary", "demote", i, contact[i].phone, TRUE))

Save(r) ==
    /\ At(r, "save") /\ call[r].id \in Live
    /\ contact' = Written(r)
    /\ Finish(r)
    /\ UNCHANGED <<code, observed>>

StartDelete(r, i) ==
    /\ i \in Live
    /\ Begin(r, "delete", Loaded("delete", "delete", i))

Delete(r) ==
    /\ At(r, "delete")
    /\ contact' = [contact EXCEPT ![call[r].id] = Absent("deleted")]
    /\ Finish(r)
    /\ UNCHANGED <<code, observed>>

\* An UPDATE that finds its row deleted raises, and all is rolled back.
Abort(r) ==
    /\ At(r, "save") \/ At(r, "confirm")
    /\ call[r].id \notin Live
    /\ Finish(r)
    /\ UNCHANGED <<contact, code, observed>>

-----------------------------------------------------------------------------

\* A code is valid for a time; the oldest expires first.
Expire ==
    \E c \in Codes :
      /\ code[c].fresh /\ \A d \in 1 .. c - 1 : ~ code[d].fresh
      /\ code' = [code EXCEPT ![c].fresh = FALSE]
      /\ UNCHANGED <<contact, call, observed>>

\* dispatch_sos looks the contacts up.
AddressAlert ==
    /\ "dispatch" \in Operations
    /\ alerted' = Live
    /\ UNCHANGED <<contact, code, call, proof, wrong>>

Next ==
    \/ \E r \in Requests :
         \/ \E p \in Phones : StartAdd(r, p)
         \/ \E i \in Ids : StartResend(r, i) \/ StartPrimary(r, i) \/ StartDelete(r, i)
         \/ \E i \in Ids, c \in Codes, right, primary \in BOOLEAN :
              StartVerify(r, i, c, right, primary)
         \/ \E i \in Ids, p \in Phones, primary \in BOOLEAN : StartUpdate(r, i, p, primary)
         \/ Invalidate(r) \/ IssueCode(r) \/ Reject(r) \/ Demote(r)
         \/ Confirm(r) \/ Save(r) \/ Delete(r) \/ Abort(r)
    \/ Expire
    \/ AddressAlert

Spec == Init /\ [][Next]_vars

-----------------------------------------------------------------------------
(* Properties                                                              *)

\* The limit of add_contact.
WithinLimit == Cardinality(Live) <= Limit

\* Two calls of POST /contacts may pass the check together.  However long that
\* goes on, with contacts deleted and added in between, the limit is exceeded
\* by no more contacts than there are other handlers.
OvershootBounded == Cardinality(Live) < Limit + Cardinality(Requests)

\* Contacts are demoted whenever another one is promoted, by any of the three
\* handlers that can promote.
AtMostOnePrimary ==
    \A i, j \in Live : contact[i].primary /\ contact[j].primary => i = j

\* A new code makes the earlier ones of its number unusable, also when the
\* number is added again after its contact was deleted.
OneLiveCode == \A p \in Phones : Cardinality(Unused(p)) <= 1

\* A code survives only so many wrong guesses, whatever contact of its number
\* they are made for.
GuessesBounded == \A c \in 1 .. MaxCodes : wrong[c] <= MaxAttempts

\* A contact counts as verified by a code that is spent and that confirmed no
\* other contact.  Codes belong to numbers: it may be one that was sent when
\* another contact of the same number was added, and is gone by now.
CodesVerifyOnce ==
    /\ \A i \in Live : contact[i].verified =>
          /\ proof[i] \in Codes
          /\ code[proof[i]].used
    /\ \A i, j \in Live : contact[i].verified /\ proof[i] = proof[j] => i = j

\* "Set as primary contact": when the call succeeds the contact is primary.
SetPrimarySticks ==
    [][\A r \in Requests :
          At(r, "save") /\ call[r].job = "primary" /\ call[r].id \in Live /\ At(r, "idle")'
            => contact'[call[r].id].primary]_vars

\* A number counts as verified after a code was sent to it and given back.
VerifiedNumberConfirmed ==
    \A i \in Live : contact[i].verified => code[proof[i]].phone = contact[i].phone

\* "Only verified contacts receive SOS WhatsApp alerts".
OnlyVerifiedAlerted ==
    [][\A i \in alerted' \ alerted : contact[i].verified]_vars
=============================================================================

------------------------------- MODULE Accounts -------------------------------
(***************************************************************************)
(* Accounts and the one-time codes of their telephone numbers:             *)
(* registration, verification and password reset (src/app/routes/auth.py   *)
(* over src/app/utils/otp.py), change of number and deletion               *)
(* (src/app/routes/user.py).                                               *)
(*                                                                         *)
(* An account is found by phone_hmac, computed from its number at the      *)
(* registration, unique and never changed; a code is found by number and   *)
(* purpose: nothing ties it to the account it was asked for.  A handler    *)
(* reads, decides, and commits later the columns it changed; its bulk      *)
(* UPDATE concerns the rows committed when it starts.                      *)
(***************************************************************************)
EXTENDS Naturals, FiniteSets

CONSTANTS
    Phones,        \* telephone numbers of registrations
    NewPhones,     \* telephone numbers a profile may be given
    Requests,      \* handlers that may run at the same time
    Operations,    \* the operations clients use in this instance
    MaxAttempts,   \* MAX_OTP_ATTEMPTS
    MaxCodes       \* bound: codes issued

Jobs == {"register", "resend", "forgot", "verify", "reset"}

ASSUME AccountsAssumption ==
    /\ {MaxAttempts, MaxCodes} \subseteq Nat
    /\ Operations \subseteq Jobs \cup {"profile", "delete"}
    /\ IsFiniteSet(Requests)

Codes == 1 .. MaxCodes
NoCode == 0

VARIABLES
    account,   \* table users, by the number that phone_hmac was computed from
    code,      \* table otp_records, in the order of their commits: created_at, which
               \* the code orders by, is set just before
    issued,    \* how many rows it has
    call,      \* handlers: where they are and what they hold
    proof,     \* observed: the code every account was verified with
    uses,      \* observed: how often every code was accepted
    wrong,     \* observed: wrong guesses answered as such, per code
    issuer     \* observed: the handler that issued every unused code

vars == <<account, code, issued, call, proof, uses, wrong, issuer>>
observed == <<proof, uses, wrong, issuer>>

Purposes == {"phone_verification", "reset_password"}

\* phone is the column phone; password is the reset code it was set with, NoCode
\* for that of the registration.
Account == [live : BOOLEAN, phone : Phones \cup NewPhones \cup {"none"},
            verified : BOOLEAN, password : Codes \cup {NoCode}]
Code == [phone : Phones \cup {"none"}, purpose : Purposes \cup {"none"},
         used : BOOLEAN, attempts : 0 .. MaxAttempts]

\* What a handler keeps: the number it was called for, the code it looked up
\* with its attempts, and the rows of its bulk UPDATE.
Call == [pc : {"idle", "invalidate", "issue", "reject", "spend", "grant"},
         job : Jobs \cup {"none"}, phone : Phones \cup {"none"},
         record : Codes \cup {NoCode}, tries : 0 .. MaxAttempts, marked : SUBSET Codes]

NoAccount == [live |-> FALSE, phone |-> "none", verified |-> FALSE, password |-> NoCode]
NewCode(p, purpose) == [phone |-> p, purpose |-> purpose, used |-> FALSE, attempts |-> 0]
NotIssued == NewCode("none", "none")

\* A handler of a job at pc for number p, that holds code c with its attempts.
Holding(pc, job, p, c, tries) ==
    [pc |-> pc, job |-> job, phone |-> p, record |-> c, tries |-> tries, marked |-> {}]
Idle == Holding("idle", "none", "none", NoCode, 0)

TypeOK ==
    /\ account \in [Phones -> Account]
    /\ code \in [Codes -> Code]
    /\ issued \in 0 .. MaxCodes
    /\ call \in [Requests -> Call]
    /\ proof \in [Phones -> Codes \cup {NoCode}]
    /\ uses \in [Codes -> Nat]
    /\ wrong \in [Codes -> Nat]
    /\ issuer \in [Codes -> SUBSET Requests]

Init ==
    /\ account = [p \in Phones |-> NoAccount]
    /\ code = [c \in Codes |-> NotIssued]
    /\ issued = 0
    /\ call = [r \in Requests |-> Idle]
    /\ proof = [p \in Phones |-> NoCode]
    /\ uses = [c \in Codes |-> 0]
    /\ wrong = [c \in Codes |-> 0]
    /\ issuer = [c \in Codes |-> {}]

Live == {p \in Phones : account[p].live}

\* The account that the lookup of a number finds, if any.
Holder(p) == {a \in Live : a = p}

Unused(p, purpose) ==
    {c \in Codes : c <= issued /\ code[c].phone = p
                     /\ code[c].purpose = purpose /\ ~ code[c].used}

\* Mutant: a reset takes any code that verifies the number.
PurposeOfRequest(job) ==
    IF job = "forgot" THEN "reset_password" ELSE "phone_verification"

PurposeOf(job) ==
    IF job \in {"forgot", "reset"} THEN "reset_password" ELSE "phone_verification"

At(r, p) == call[r].pc = p
Hold(r, local) == call' = [call EXCEPT ![r] = local]

Begin(r, local) ==
    /\ At(r, "idle") /\ local.job \in Operations
    /\ Hold(r, local)
    /\ UNCHANGED <<account, code, issued, observed>>

-----------------------------------------------------------------------------
(* store_otp and the handlers that call it                                 *)

Registering(r, p) == At(r, "issue") /\ call[r].job = "register" /\ call[r].phone = p

\* POST /auth/register/phone, up to its first commit.  The row of the account
\* is flushed before the codes are touched: the unique index makes another
\* registration of the number wait, and then fail.
StartRegister(r, p) ==
    /\ Holder(p) = {}
    /\ \A q \in Requests : ~ Registering(q, p)
    /\ Begin(r, [Holding("issue", "register", p, NoCode, 0)
                     EXCEPT !.marked = Unused(p, "phone_verification")])

\* POST /auth/resend-otp and /auth/forgot-password look the account up.
StartResend(r, job, p) ==
    /\ job \in {"resend", "forgot"}
    /\ Holder(p) # {}
    /\ Begin(r, Holding("invalidate", job, p, NoCode, 0))

\* Mutant: the earlier codes stay usable after a resend.
InvalidateNone(r) ==
    /\ At(r, "invalidate")
    /\ Hold(r, [call[r] EXCEPT !.pc = "issue"])
    /\ UNCHANGED <<account, code, issued, observed>>

\* The bulk UPDATE that marks the earlier codes as used.
Invalidate(r) ==
    /\ At(r, "invalidate")
    /\ Hold(r, [call[r] EXCEPT !.pc = "issue",
                  !.marked = Unused(call[r].phone, PurposeOf(call[r].job))])
    /\ UNCHANGED <<account, code, issued, observed>>

NewAccount(p) == [NoAccount EXCEPT !.live = TRUE, !.phone = p]

\* The commit of store_otp, which is also that of the new account.
IssueCode(r) ==
    LET c == issued + 1
        p == call[r].phone
    IN /\ At(r, "issue") /\ issued < MaxCodes
       /\ issued' = c
       /\ code' = [d \in Codes |->
                     IF d = c THEN NewCode(p, PurposeOf(call[r].job))
                     ELSE [code[d] EXCEPT !.used = @ \/ d \in call[r].marked]]
       /\ issuer' = [d \in Codes |-> IF d = c THEN {r}
                                     ELSE IF d \in call[r].marked THEN {} ELSE issuer[d]]
       /\ account' = IF call[r].job = "register"
                        THEN [account EXCEPT ![p] = NewAccount(p)] ELSE account
       /\ Hold(r, Idle)
       /\ UNCHANGED <<proof, uses, wrong>>

-----------------------------------------------------------------------------
(* verify_otp and the handlers that call it                                *)

\* Mutant: the latest unused code for the purpose, whatever its number.
LatestOfPurpose(c, p, purpose) ==
    LET unused == UNION {Unused(q, purpose) : q \in Phones}
    IN c \in unused /\ \A d \in unused : d <= c

Latest(c, p, purpose) ==
    c \in Unused(p, purpose) /\ \A d \in Unused(p, purpose) : d <= c

\* Mutant: one attempt too many.
StartCheckOneMore(r, job, p, c, right) ==
    /\ job \in {"verify", "reset"}
    /\ Latest(c, p, PurposeOf(job))
    /\ code[c].attempts <= MaxAttempts
    /\ Begin(r, Holding(IF right THEN "spend" ELSE "reject", job, p, c, code[c].attempts))

\* POST /auth/verify-phone-otp and /auth/reset-password read the latest unused
\* code; one that is neither expired nor out of attempts is compared with the
\* guess.  Time is not kept: to find the code expired is to refuse without a
\* trace, and is to leave this step out.
StartCheck(r, job, p, c, right) ==
    /\ job \in {"verify", "reset"}
    /\ Latest(c, p, PurposeOf(job))
    /\ code[c].attempts < MaxAttempts
    /\ Begin(r, Holding(IF right THEN "spend" ELSE "reject", job, p, c, code[c].attempts))

\* Mutant: every column of the row is written back as it was read.
RejectWholeRow(r) ==
    LET c == call[r].record
    IN /\ At(r, "reject")
       /\ code' = [code EXCEPT ![c].attempts = call[r].tries + 1, ![c].used = FALSE]
       /\ wrong' = [wrong EXCEPT ![c] = @ + 1]
       /\ Hold(r, Idle)
       /\ UNCHANGED <<account, issued, proof, uses, issuer>>

Reject(r) ==
    LET c == call[r].record
    IN /\ At(r, "reject")
       /\ code' = [code EXCEPT ![c].attempts = call[r].tries + 1]
       /\ wrong' = [wrong EXCEPT ![c] = @ + 1]
       /\ Hold(r, Idle)
       /\ UNCHANGED <<account, issued, proof, uses, issuer>>

\* Mutant: the code is accepted without being spent.
SpendNothing(r) ==
    LET c == call[r].record
    IN /\ At(r, "spend")
       /\ uses' = [uses EXCEPT ![c] = @ + 1]
       /\ Hold(r, [call[r] EXCEPT !.pc = "grant"])
       /\ UNCHANGED <<account, code, issued, proof, wrong, issuer>>

\* The code is spent by a commit of its own, before what it allows is done.
Spend(r) ==
    LET c == call[r].record
    IN /\ At(r, "spend")
       /\ code' = [code EXCEPT ![c].used = TRUE]
       /\ uses' = [uses EXCEPT ![c] = @ + 1]
       /\ issuer' = [issuer EXCEPT ![c] = {}]
       /\ Hold(r, [call[r] EXCEPT !.pc = "grant"])
       /\ UNCHANGED <<account, issued, proof, wrong>>

Verify(r) ==
    /\ At(r, "grant") /\ call[r].job = "verify"
    /\ \E a \in Holder(call[r].phone) :
         /\ account' = [account EXCEPT ![a].verified = TRUE]
         /\ proof' = [proof EXCEPT ![a] = call[r].record]
    /\ Hold(r, Idle)
    /\ UNCHANGED <<code, issued, uses, wrong, issuer>>

SetPassword(r) ==
    /\ At(r, "grant") /\ call[r].job = "reset"
    /\ \E a \in Holder(call[r].phone) :
         account' = [account EXCEPT ![a].password = call[r].record]
    /\ Hold(r, Idle)
    /\ UNCHANGED <<code, issued, observed>>

\* The number has no account (any more), or the new password is too weak.
Refuse(r) ==
    /\ At(r, "grant")
    /\ Holder(call[r].phone) = {} \/ call[r].job = "reset"
    /\ Hold(r, Idle)
    /\ UNCHANGED <<account, code, issued, observed>>

\* A handler raises or the process restarts: what is not committed is lost.
Fail(r) ==
    /\ ~ At(r, "idle")
    /\ Hold(r, Idle)
    /\ UNCHANGED <<account, code, issued, observed>>

-----------------------------------------------------------------------------
(* PUT /user/profile, DELETE /user/account and /user/{id}                  *)

\* The number is replaced, its index is not.
UpdateProfile(a, p) ==
    /\ "profile" \in Operations /\ a \in Live
    /\ account' = [account EXCEPT ![a].phone = p]
    /\ UNCHANGED <<code, issued, call, observed>>

\* The codes of the number stay.
DeleteAccount(a) ==
    /\ "delete" \in Operations /\ a \in Live
    /\ account' = [account EXCEPT ![a] = NoAccount]
    /\ proof' = [proof EXCEPT ![a] = NoCode]
    /\ UNCHANGED <<code, issued, call, uses, wrong, issuer>>

-----------------------------------------------------------------------------

Handle(r) ==
    \/ Invalidate(r) \/ IssueCode(r) \/ Reject(r) \/ Spend(r)
    \/ Verify(r) \/ SetPassword(r) \/ Refuse(r) \/ Fail(r)

Next ==
    \/ \E r \in Requests, p \in Phones :
         \/ StartRegister(r, p)
         \/ \E job \in Jobs : StartResend(r, job, p)
         \/ \E job \in Jobs, c \in Codes, right \in BOOLEAN : StartCheck(r, job, p, c, right)
    \/ \E r \in Requests : Handle(r)
    \/ \E a \in Phones : DeleteAccount(a) \/ \E p \in NewPhones : UpdateProfile(a, p)

Spec == Init /\ [][Next]_vars

-----------------------------------------------------------------------------
(* Properties                                                              *)

\* Two handlers may both invalidate before either issues its code, so that
\* several codes of a number are good for one purpose; but never two that the
\* same handler issued, however calls overlap, fail and follow one another.
\* With one handler this is the "previous codes become unusable" of store_otp.
OneLiveCodePerHandler ==
    \A p \in Phones, purpose \in Purposes :
        \A c, d \in Unused(p, purpose) : issuer[c] = issuer[d] => c = d

\* A code is spent by a write that follows a read.  It can be accepted by all
\* the handlers that read it before the first of them spent it, and not once
\* more in any later call.
AcceptedOncePerHandler == \A c \in Codes : uses[c] <= Cardinality(Requests)

\* The ways to spread the handlers over the counts 0 .. MaxAttempts of a code: a
\* way is given by how many stand at i or below, for every i under the limit.
Spreads ==
    {f \in [0 .. MaxAttempts - 1 -> 0 .. Cardinality(Requests)] :
        \A i, j \in 0 .. MaxAttempts - 1 : i <= j => f[i] <= f[j]}

\* The attempts of a code are counted by a read and a later write, so that a
\* slow handler sets the count back to what it had read plus one, and handlers
\* that fail or start meanwhile go on from there.  What they can guess that way
\* is bounded all the same: never twice from one spread.  For one handler the
\* bound is MaxAttempts.
GuessesBounded == \A c \in Codes : wrong[c] < Cardinality(Spreads)

\* An account counts as verified, or has a new password, by a spent code that was
\* sent for that purpose to the number it was registered with, by which it is
\* found: never by one of another number, although the account is looked up after
\* the code was, and accounts come and go under one number.
GrantedByRegisteredNumber ==
    \A a \in Live :
        /\ account[a].verified =>
             /\ proof[a] # NoCode
             /\ code[proof[a]].used
             /\ code[proof[a]].phone = a
             /\ code[proof[a]].purpose = "phone_verification"
        /\ account[a].password # NoCode =>
             /\ code[account[a].password].used
             /\ code[account[a].password].phone = a
             /\ code[account[a].password].purpose = "reset_password"

\* The number the account has is the one that answered for it: a code was sent to
\* it before the account counts as verified or has a new password.
GrantedByPresentNumber ==
    \A a \in Live :
        /\ account[a].verified => code[proof[a]].phone = account[a].phone
        /\ account[a].password # NoCode => code[account[a].password].phone = account[a].phone

\* A code that was replaced or spent stays unusable: no handler that read it
\* earlier writes it back, and no failing one leaves it half way.
SpentStaysSpent ==
    [][\A c \in Codes : code[c].used => code'[c].used]_vars

\* "Phone number already in use" is what update_profile answers rather than
\* give two accounts one number.
NumberInUseOnce ==
    \A a, b \in Live : account[a].phone = account[b].phone => a = b

\* "Lookup via HMAC index": an account is found by the number it has.
FoundByItsNumber == \A a \in Live : account[a].phone = a

\* A registration leaves no code usable that was sent before it: what the
\* previous account of the number asked for ends with that account.
RegistrationStartsClean ==
    [][\A p \in Phones :
          p \notin Live /\ p \in Live' => Unused(p, "reset_password") = {}]_vars
=============================================================================

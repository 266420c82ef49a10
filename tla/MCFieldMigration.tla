--------------------------- MODULE MCFieldMigration ---------------------------
(* Rows and values of the finite instances of FieldMigration.              *)
EXTENDS FieldMigration, TLC

CONSTANTS u1, u2, u3, b1, mail, MAIL

\* Accounts, whose table is committed in batches, and a handset binding, whose
\* table is committed at its end.
ThreeAndOne == u1 :> "users" @@ u2 :> "users" @@ u3 :> "users" @@ b1 :> "user_device_bindings"

\* One e-mail address, written in two ways.
OneAddress == [v \in Values |-> IF v = MAIL THEN mail ELSE v]

\* One account has the address, another may have it written differently.
TwoMayShare == [r \in Rows |-> IF r = u1 THEN {mail} ELSE IF r = u2 THEN {NoValue, MAIL} ELSE {NoValue}]
=============================================================================

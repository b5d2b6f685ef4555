--------------------------- MODULE UserDirectory ---------------------------
(***************************************************************************)
(* What an operator who works alone expects of the provider: a directory   *)
(* of users that changes only as a request says, and only for the users    *)
(* the request is about.  A request about several users (an import) may    *)
(* change them one after the other.  Migrations, schema settings and reads *)
(* are about nobody.                                                       *)
(*                                                                         *)
(* intact turns false, for good, when something has happened of which the  *)
(* program makes no such promise.                                          *)
(***************************************************************************)
EXTENDS UserSchemas

CONSTANT Requests

VARIABLES directory, intact

dvars == <<directory, intact>>

Init ==
    /\ IsUsers(directory)
    /\ intact = TRUE

(* The directory after r, of which the users in S have been served so far; *)
(* it is read as schema s and kept as schema t.                            *)
Served(r, S, s, t) ==
    LET asked == Apply(r, [schema |-> s, users |-> directory])
        users == Stored([asked EXCEPT !.schema = t]).users
    IN  [u \in (DOMAIN directory \ S) \cup (DOMAIN users \cap S) |->
            IF u \in S THEN users[u] ELSE directory[u]]

Serve(r) ==
    \E S \in SUBSET About(r), s, t \in Schema :
        /\ Apply(r, [schema |-> s, users |-> directory]) # Rejected
        /\ directory' = Served(r, S, s, t)

Next ==
    \/ intact /\ intact' /\ \E r \in Requests : Serve(r)
    \/ ~intact'

Spec == Init /\ [][Next]_dvars
=============================================================================

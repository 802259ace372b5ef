----------------------------- MODULE MCSession -----------------------------
(***************************************************************************)
(* The sessions of one application, and the names its properties have      *)
(* beside those of the cache.  Two requests in flight, one user, three     *)
(* ids: enough for a login over a login while a stale request still holds  *)
(* the first session.                                                      *)
(***************************************************************************)
EXTENDS TLC

CONSTANTS
    i1, i2, i3, r1, r2,
    Id, User, Message, Request, Persistent, Nobody      \* of Session

VARIABLES saved, issued, cookie, phase, sess, given, reply, expect

Sessions == INSTANCE Session WITH store <- saved, None <- Nobody

ASSUME SessionsOK == Sessions!ConstantsOK

SessionSpec == Sessions!Spec

IdMC      == {i1, i2, i3}
RequestMC == {r1, r2}
Alike     == Permutations(IdMC) \cup Permutations(RequestMC)

-----------------------------------------------------------------------------
(* The properties of Session *)

\* A request in the server works under an issued id, and one that has left it
\* holds no session (session.go:49-70).
SessionTypeOK == Sessions!TypeOK

\* A session id gets a user when Login issues it, and at no other time
\* (auth.go:17-21, session.go:149-159).
IdentityOnlyFromLogin == Sessions!IdentityOnlyFromLogin

\* Requests that come one after the other see each other's changes
\* (session.go:242-255), unless the read of the session fails (redis.go:26-35).
ReadYourWrites == Sessions!ReadYourWrites

\* session.go:114: "Flash stores a value that persists through exactly one
\* redirect."
FlashedOnce == Sessions!FlashedOnce
=============================================================================

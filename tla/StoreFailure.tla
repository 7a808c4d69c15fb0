---------------------------- MODULE StoreFailure ----------------------------
(***************************************************************************)
(* classify_store_failure (app/cloud_store.py): whom an object-store       *)
(* failure is blamed on. The exception the SDK raises wraps others, and    *)
(* the walk along __cause__ and __context__ stops at the first that it can *)
(* attribute; both the preflight probe and download_cloud_spec use it.     *)
(*                                                                         *)
(* An exception is [kind, status, cause, context, severed]: what its type  *)
(* says, the HTTP status its text quotes, its __cause__, its __context__   *)
(* and its __suppress_context__.                                           *)
(***************************************************************************)
EXTENDS Naturals

CONSTANTS Exceptions,   \* the exceptions there are
          None          \* an absent value

Kinds == {"gateway",      \* StorageGatewayAuthUnavailableError
          "auth",         \* UnauthenticatedError, StorageAuthError
          "permission",   \* PermissionDeniedError, StoragePermissionError
          "notfound",     \* NotFoundError, StorageNotFoundError, FileNotFoundError
          "config",       \* StorageConfigError
          "other"}

Links == Exceptions \cup {None}

ASSUME NoneAssumption == None \notin Exceptions

VARIABLES chain,     \* the exceptions, as raised; the walk changes none
          raised,    \* the exception that is classified
          current, seen, walking, blamed

vars == <<chain, raised, current, seen, walking, blamed>>

\* Mutant: what says nothing is blamed on the storage.
Attribution_Guesses(x) ==
    IF x.kind = "auth" THEN "CredentialRejected" ELSE "StorageError"

\* What one exception says by itself.
Attribution(x) ==
    IF x.kind = "auth" \/ x.status = 401            THEN "CredentialRejected"
    ELSE IF x.kind = "permission" \/ x.status = 403 THEN "AccessDenied"
    ELSE IF x.kind = "notfound"                     THEN "CloudSpecNotFound"
    ELSE IF x.kind = "config"                       THEN "ObjectStoreCredential"
    ELSE None

\* Mutant: a severed context is walked.
Follow_Severed(x) == IF x.cause # None THEN x.cause ELSE x.context

Follow(x) == IF x.cause # None THEN x.cause
             ELSE IF x.severed THEN None
             ELSE x.context

\* Mutant: an exception may be visited again.
CanVisit_Again(e) == e # None

CanVisit(e) == e # None /\ e \notin seen

Stop(answer) == /\ walking' = FALSE
                /\ blamed' = answer
                /\ UNCHANGED current

Visit ==
    /\ walking /\ CanVisit(current)
    /\ seen' = seen \cup {current}
    /\ LET x == chain[current]
       IN  IF x.kind = "gateway" THEN Stop(None)
           ELSE IF Attribution(x) # None THEN Stop(Attribution(x))
           ELSE current' = Follow(x) /\ UNCHANGED <<walking, blamed>>
    /\ UNCHANGED <<chain, raised>>

GiveUp ==
    /\ walking /\ ~CanVisit(current)
    /\ Stop(None)
    /\ UNCHANGED <<chain, raised, seen>>

\* `raise ... from` sets __suppress_context__ as well as __cause__.
Raisable == {x \in [kind : Kinds, status : {None, 401, 403, 503},
                    cause : Links, context : Links, severed : BOOLEAN] :
                x.cause # None => x.severed}

Init ==
    /\ chain \in [Exceptions -> Raisable]
    /\ raised \in Exceptions
    /\ current = raised /\ seen = {} /\ walking = TRUE /\ blamed = None

Next == Visit \/ GiveUp

Spec == Init /\ [][Next]_vars /\ WF_vars(Next)

----------------------------------------------------------------------------
(* Properties *)

TypeOK ==
    /\ chain \in [Exceptions -> Raisable] /\ raised \in Exceptions
    /\ current \in Links /\ seen \subseteq Exceptions
    /\ walking \in BOOLEAN
    /\ blamed \in {None, "CredentialRejected", "AccessDenied",
                   "CloudSpecNotFound", "ObjectStoreCredential"}

\* f explains e: it was raised `from` it, or while it was handled.
Explains(f, e) ==
    IF chain[e].cause # None THEN f = chain[e].cause
    ELSE ~chain[e].severed /\ f = chain[e].context

Silent(e) == chain[e].kind # "gateway" /\ Attribution(chain[e]) = None

\* What was visited is the raised exception and what explains it.
SeenExplains ==
    \A e \in seen : e = raised \/ \E d \in seen : Silent(d) /\ Explains(e, d)

(***************************************************************************)
(* The blame falls on the nearest exception that can bear it, reached      *)
(* through no severed context; nobody is blamed if a gateway outage is     *)
(* nearer, or if no exception that explains the failure can bear it.       *)
(***************************************************************************)
BlameIsNearest ==
    ~walking =>
        /\ raised \in seen /\ SeenExplains
        /\ \/ \E e \in seen :
                /\ \A d \in seen \ {e} : Silent(d)
                /\ ~Silent(e)
                /\ blamed = IF chain[e].kind = "gateway" THEN None
                            ELSE Attribution(chain[e])
           \/ /\ blamed = None
              /\ \A d \in seen : Silent(d)
              /\ \A d \in seen, e \in Exceptions : Explains(e, d) => e \in seen

\* The classification ends, on chains that lead back into themselves too.
Classified == <>~walking
=============================================================================

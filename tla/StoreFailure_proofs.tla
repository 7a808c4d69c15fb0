------------------------- MODULE StoreFailure_proofs -------------------------
(***************************************************************************)
(* The blame for a store failure falls where it should whatever exceptions *)
(* the SDK and obstore raise and however they are linked.                  *)
(***************************************************************************)
EXTENDS StoreFailure, TLAPS

Shape == /\ chain \in [Exceptions -> Raisable] /\ raised \in Exceptions
         /\ current \in Links /\ seen \subseteq Exceptions

\* While it walks, all that was visited is silent, and all that explains it
\* was visited or comes next.
Walk ==
    walking =>
        /\ blamed = None
        /\ raised \in seen \cup {current}
        /\ \A d \in seen : Silent(d)
        /\ current \in Exceptions =>
              current = raised \/ \E d \in seen : Explains(current, d)
        /\ \A d \in seen, e \in Exceptions :
              Explains(e, d) => e \in seen \cup {current}

WInv == Shape /\ Walk /\ SeenExplains /\ BlameIsNearest

LEMMA InitWInv == Init => WInv
  BY NoneAssumption
     DEF Init, WInv, Shape, Walk, SeenExplains, BlameIsNearest, Links

LEMMA FollowIsLink ==
    ASSUME NEW x \in Raisable
    PROVE  Follow(x) \in Links
  BY DEF Follow, Raisable, Links

LEMMA VisitStep == ASSUME WInv, Visit PROVE WInv'
<1> USE DEF WInv
<1> DEFINE x == chain[current]
<1>1. /\ walking /\ current \in Exceptions /\ current \notin seen
      /\ x \in Raisable /\ seen' = seen \cup {current}
      /\ UNCHANGED <<chain, raised>>
  BY DEF Visit, CanVisit, Shape, Links
<1>2. \A e \in Exceptions : Silent(e)' <=> Silent(e)
  BY <1>1 DEF Silent
<1>3. \A e, d \in Exceptions : Explains(e, d)' <=> Explains(e, d)
  BY <1>1 DEF Explains
<1>4. /\ \A d \in seen : Silent(d)
      /\ current = raised \/ \E d \in seen : Explains(current, d)
      /\ raised \in seen'
  BY <1>1 DEF Walk
<1>5. SeenExplains'
  <2>1. ASSUME NEW e \in seen', e # raised
        PROVE  \E d \in seen' : Silent(d) /\ Explains(e, d)
    <3>1. CASE e = current
      BY <1>1, <1>4, <2>1, <3>1
    <3>2. CASE e \in seen
      BY <1>1, <2>1, <3>2 DEF SeenExplains
    <3>3. QED
      BY <1>1, <3>1, <3>2
  <2>2. seen' \subseteq Exceptions
    BY <1>1 DEF Shape
  <2>3. QED
    BY <1>1, <1>2, <1>3, <2>1, <2>2 DEF SeenExplains
<1>6. CASE ~Silent(current)
  <2>1. /\ ~walking' /\ UNCHANGED current
        /\ blamed' = IF x.kind = "gateway" THEN None ELSE Attribution(x)
    BY <1>1, <1>6 DEF Visit, Stop, Silent
  <2>2. Shape' /\ Walk'
    BY <1>1, <2>1 DEF Shape, Walk
  <2>3. PICK c \in Exceptions : c = current
    BY <1>1
  <2>4. c \in seen' /\ ~Silent(c)' /\ \A d \in seen' \ {c} : Silent(d)'
    BY <1>1, <1>2, <1>4, <1>6, <2>3 DEF Shape
  <2>5. blamed' = IF chain'[c].kind = "gateway" THEN None
                  ELSE Attribution(chain'[c])
    BY <1>1, <2>1, <2>3
  <2>6. BlameIsNearest'
    BY <1>4, <1>1, <1>5, <2>4, <2>5 DEF BlameIsNearest
  <2>7. QED
    BY <1>5, <2>2, <2>6
<1>7. CASE Silent(current)
  <2>1. current' = Follow(x) /\ UNCHANGED <<walking, blamed>>
    BY <1>1, <1>7 DEF Visit, Silent
  <2>2. Shape'
    BY <1>1, <2>1, FollowIsLink DEF Shape
  <2>3. BlameIsNearest'
    BY <1>1, <2>1 DEF BlameIsNearest
  <2>4. ASSUME NEW e \in Exceptions, Explains(e, current)
        PROVE  e = current'
    BY <2>1, <2>4, NoneAssumption DEF Explains, Follow
  <2>5. ASSUME current' \in Exceptions
        PROVE  Explains(current', current)
    BY <2>1, <2>5, NoneAssumption DEF Explains, Follow
  <2>6. ASSUME NEW d \in seen', NEW e \in Exceptions, Explains(e, d)
        PROVE  e \in seen' \cup {current'}
    <3>1. CASE d = current
      BY <2>4, <2>6, <3>1
    <3>2. CASE d \in seen
      BY <1>1, <2>6, <3>2 DEF Walk
    <3>3. QED
      BY <1>1, <3>1, <3>2
  <2>7. \A d \in seen' : Silent(d)
    BY <1>1, <1>4, <1>7
  <2>8. seen' \subseteq Exceptions
    BY <2>2 DEF Shape
  <2>9. Walk'
    <3>1. blamed' = None /\ raised' \in seen' \cup {current'}
      BY <1>1, <1>4, <2>1 DEF Walk
    <3>2. \A d \in seen' : Silent(d)'
      BY <1>2, <2>7, <2>8
    <3>3. current' \in Exceptions => \E d \in seen' : Explains(current', d)
      BY <1>1, <2>5
    <3>4. current' \in Exceptions => \E d \in seen' : Explains(current, d)'
      BY <1>1, <2>5 DEF Explains
    <3>5. \A d \in seen', e \in Exceptions :
             Explains(e, d)' => e \in seen' \cup {current'}
      BY <1>3, <2>6, <2>8
    <3>6. QED
      BY <3>1, <3>2, <3>4, <3>5 DEF Walk
  <2>10. QED
    BY <1>5, <2>2, <2>3, <2>9
<1>8. QED
  BY <1>6, <1>7

LEMMA GiveUpStep == ASSUME WInv, GiveUp PROVE WInv'
<1> USE DEF WInv
<1>1. /\ walking /\ ~walking' /\ blamed' = None
      /\ UNCHANGED <<chain, raised, current, seen>>
      /\ current = None \/ current \in seen
  BY DEF GiveUp, Stop, CanVisit
<1>2. Shape' /\ Walk' /\ SeenExplains'
  BY <1>1 DEF Shape, Walk, SeenExplains, Silent, Explains
<1>3. /\ raised \in seen /\ \A d \in seen : Silent(d)
      /\ \A d \in seen, e \in Exceptions : Explains(e, d) => e \in seen
  BY <1>1, NoneAssumption DEF Walk, Shape
<1>4. BlameIsNearest'
  BY <1>1, <1>2, <1>3 DEF BlameIsNearest, Silent, Explains
<1>5. QED
  BY <1>2, <1>4

\* Whatever the exceptions are and however they refer to each other, the
\* blame falls on the nearest one that can bear it, or on nobody.
THEOREM BlameTheorem == Spec => []BlameIsNearest
<1>1. WInv /\ [Next]_vars => WInv'
  <2> SUFFICES ASSUME WInv, [Next]_vars PROVE WInv'
    OBVIOUS
  <2>1. CASE UNCHANGED vars
    BY <2>1 DEF vars, WInv, Shape, Walk, SeenExplains, BlameIsNearest, Silent,
                Explains
  <2>2. QED
    BY <2>1, VisitStep, GiveUpStep DEF Next
<1>2. WInv => BlameIsNearest
  BY DEF WInv
<1>3. QED
  BY InitWInv, <1>1, <1>2, PTL DEF Spec

LEMMA AttributionIsBlame ==
    ASSUME NEW x \in Raisable
    PROVE  Attribution(x) \in {None, "CredentialRejected", "AccessDenied",
                               "CloudSpecNotFound", "ObjectStoreCredential"}
  BY DEF Attribution

\* The walk stays on the exceptions that were raised, visits each at most
\* once and changes none, and what it answers is an error of the classifier.
THEOREM WalkTypeOK == Spec => []TypeOK
<1>1. Init => TypeOK
  BY DEF Init, TypeOK, Links
<1>2. TypeOK /\ [Next]_vars => TypeOK'
  <2> SUFFICES ASSUME TypeOK, [Next]_vars PROVE TypeOK'
    OBVIOUS
  <2>1. CASE Visit
    <3>1. /\ current \in Exceptions /\ chain[current] \in Raisable
          /\ seen' = seen \cup {current} /\ UNCHANGED <<chain, raised>>
      BY <2>1 DEF Visit, CanVisit, TypeOK, Links
    <3>2. CASE current' = Follow(chain[current]) /\ UNCHANGED <<walking, blamed>>
      BY <3>1, <3>2, FollowIsLink DEF TypeOK
    <3>3. CASE Stop(None)
      BY <3>1, <3>3 DEF TypeOK, Stop
    <3>4. CASE Stop(Attribution(chain[current]))
      BY <3>1, <3>4, AttributionIsBlame DEF TypeOK, Stop
    <3>5. QED
      BY <2>1, <3>2, <3>3, <3>4 DEF Visit
  <2>2. CASE GiveUp
    BY <2>2 DEF GiveUp, Stop, TypeOK
  <2>3. CASE UNCHANGED vars
    BY <2>3 DEF vars, TypeOK
  <2>4. QED
    BY <2>1, <2>2, <2>3 DEF Next
<1>3. QED
  BY <1>1, <1>2, PTL DEF Spec
=============================================================================

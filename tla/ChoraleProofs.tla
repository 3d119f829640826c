----------------------------- MODULE ChoraleProofs -----------------------------
(***************************************************************************)
(* Why two ducks never conduct at once, for any number of ducks, pieces    *)
(* and beats, with a prompt radio; and why each sings a line of its own,   *)
(* with any radio.                                                         *)
(***************************************************************************)
EXTENDS Chorale, FiniteSetTheorems, TLAPS

-----------------------------------------------------------------------------
(* Type correctness.                                                       *)

\* What a duck starts anew with is one of its records.
LEMMA FreshRecords ==
  /\ Off \in DuckRecords /\ Listening \in DuckRecords
  /\ \A p \in Pieces : Joining(p) \in DuckRecords
  /\ \A p \in Pieces, r \in Rosters : Conducting(p, r) \in DuckRecords
<1>1. 0 \in Beats /\ 0 \in 0..LockAt
  BY ChoraleAssumption DEF Beats
<1>2. <<>> \in Rosters
  BY ChoraleAssumption DEF Rosters
<1>3. ASSUME NEW state \in {"off", "listening", "conducting", "following"},
             NEW piece \in Pieces \cup {Idle}, NEW roster \in Rosters
      PROVE  Begun(state, piece, roster) \in DuckRecords
  BY <1>1 DEF Begun, DuckRecords
<1> QED BY <1>2, <1>3 DEF Off, Listening, Joining, Conducting

\* What a follower takes from a beat keeps its type.
LEMMA ObservesType ==
  ASSUME TypeOK, NEW f \in DuckRecords, NEW e \in Ducks
  PROVE  Observes(f, e) \in DuckRecords
<1> DEFINE seen == IF f.lastBeat = duck[e].beat \/ f.observed = LockAt
                     THEN f.observed ELSE f.observed + 1
<1>1. duck[e] \in DuckRecords
  BY DEF TypeOK
<1>2. duck[e].roster \in Rosters /\ duck[e].beat \in Beats
  BY <1>1 DEF DuckRecords
<1>3. seen \in 0..LockAt
  BY ChoraleAssumption DEF DuckRecords
<1>4. Observes(f, e) = [f EXCEPT !.leader = e, !.roster = duck[e].roster,
                                 !.lastBeat = duck[e].beat, !.observed = seen]
  BY DEF Observes
<1> HIDE DEF seen
<1> QED BY <1>2, <1>3, <1>4 DEF DuckRecords

\* Seating newcomers makes a roster that fits a beacon.
LEMMA SeatedType ==
  ASSUME NEW r \in Rosters, NEW new \in SUBSET Ducks
  PROVE  Seated(r, new) \subseteq Rosters
<1> DEFINE n == Min({MaxRoster - Len(r), Cardinality(new)})
<1>1. Cardinality(new) \in Nat
  BY ChoraleAssumption, FS_Subset, FS_CardinalityType
<1>2. MaxRoster - Len(r) \in Nat
  BY ChoraleAssumption DEF Rosters
<1>3. n \in Nat /\ n <= MaxRoster - Len(r)
  <2>1. \E x \in {MaxRoster - Len(r), Cardinality(new)} :
           \A y \in {MaxRoster - Len(r), Cardinality(new)} : x <= y
    BY <1>1, <1>2
  <2>2. /\ n \in {MaxRoster - Len(r), Cardinality(new)}
        /\ \A y \in {MaxRoster - Len(r), Cardinality(new)} : n <= y
    BY <2>1 DEF Min
  <2> QED BY <1>1, <1>2, <2>2
<1>4. ASSUME NEW s \in Injection(1..n, new)
      PROVE  r \o s \in Rosters
  <2>1. s \in [1..n -> new]
    BY DEF Injection
  <2> HIDE DEF n
  <2>2. s \in Seq(new) /\ Len(s) = n
    BY <1>3, <2>1
  <2>3. s \in Seq(Ducks)
    BY <2>2
  <2>4. r \in Seq(Ducks) /\ Len(r) \in Nat /\ MaxRoster \in Nat
    BY ChoraleAssumption DEF Rosters
  <2>5. r \o s \in Seq(Ducks) /\ Len(r \o s) = Len(r) + Len(s)
    BY <2>3, <2>4
  <2> QED BY <1>2, <1>3, <2>2, <2>4, <2>5 DEF Rosters
<1> QED BY <1>4 DEF Seated

\* The ducks a step leaves unheard are ducks.
LEMMA AiredType ==
  ASSUME NEW heard, Aired(heard)
  PROVE  unheard' \in [Ducks -> SUBSET Ducks]
BY DEF Aired

\* Every step keeps the types.
LEMMA TypeKept == TypeOK /\ [Next]_vars => TypeOK'
<1> SUFFICES ASSUME TypeOK, [Next]_vars PROVE TypeOK'
  OBVIOUS
<1>1. ASSUME NEW d \in Ducks, NEW new \in DuckRecords, Becomes(d, new)
      PROVE  duck' \in [Ducks -> DuckRecords] /\ listened' \in [Ducks -> 0..Settle]
  BY <1>1, ChoraleAssumption DEF TypeOK, Becomes
<1>2. Off \in DuckRecords /\ Listening \in DuckRecords
  BY FreshRecords
<1>3. ASSUME NEW d \in Ducks, Activate(d) PROVE TypeOK'
  BY <1>1, <1>2, <1>3, AiredType DEF TypeOK, Activate
<1>4. ASSUME NEW d \in Ducks, Deactivate(d) PROVE TypeOK'
  BY <1>1, <1>2, <1>4, AiredType DEF TypeOK, Deactivate
<1>5. ASSUME NEW d \in Ducks, NEW e \in Ducks, Hear(d, e) PROVE TypeOK'
  <2>1. PieceOnAir(e) \in Pieces \cup {Idle}
    BY DEF TypeOK, DuckRecords, PieceOnAir
  <2>2. Followed(d, e) \in DuckRecords
    <3>1. duck[d] \in DuckRecords
      BY DEF TypeOK
    <3>2. ASSUME duck[e].piece \in Knows[d]
          PROVE  Joining(duck[e].piece) \in DuckRecords
      BY <3>2, FreshRecords, ChoraleAssumption
    <3> QED BY <1>2, <3>1, <3>2, ObservesType DEF Followed
  <2>3. duck' \in [Ducks -> DuckRecords]
    BY <1>5, <2>2 DEF TypeOK, Hear
  <2>4. peers' \in [Ducks -> [Ducks -> Pieces \cup {Idle, Unheard}]]
    BY <1>5, <2>1 DEF TypeOK, Hear
  <2> QED BY <1>5, <2>3, <2>4, AiredType DEF TypeOK, Hear
<1>6. ASSUME NEW d \in Ducks, NEW e \in Ducks, GoesStale(d, e) PROVE TypeOK'
  BY <1>6, AiredType DEF TypeOK, GoesStale
<1>7. ASSUME NEW d \in Ducks, Join(d) PROVE TypeOK'
  <2>1. PICK e \in Joinable(d) : Becomes(d, Joining(peers[d][e]))
    BY <1>7 DEF Join
  <2>2. Joining(peers[d][e]) \in DuckRecords
    BY FreshRecords, ChoraleAssumption DEF Joinable
  <2> QED BY <1>1, <1>7, <2>1, <2>2, AiredType DEF TypeOK, Join
<1>8. ASSUME NEW d \in Ducks, Conduct(d) PROVE TypeOK'
  <2>1. PICK p \in Knows[d], r \in Seated(<<d>>, Peers(d)) :
          Becomes(d, Conducting(p, r))
    BY <1>8 DEF Conduct
  <2>2. r \in Rosters
    <3>1. <<d>> \in Rosters
      BY ChoraleAssumption DEF Rosters
    <3> QED BY <3>1, SeatedType DEF Peers
  <2>3. Conducting(p, r) \in DuckRecords
    BY <2>2, FreshRecords, ChoraleAssumption
  <2> QED BY <1>1, <1>8, <2>1, <2>3, AiredType DEF TypeOK, Conduct
<1>9. ASSUME NEW d \in Ducks, SeatNew(d) PROVE TypeOK'
  <2>1. PICK r \in Seated(duck[d].roster, Newcomers(d)) :
          duck' = [duck EXCEPT ![d].roster = r]
    BY <1>9 DEF SeatNew
  <2>2. duck[d] \in DuckRecords
    BY DEF TypeOK
  <2>3. r \in Rosters
    <3>1. duck[d].roster \in Rosters
      BY <2>2 DEF DuckRecords
    <3>2. Newcomers(d) \in SUBSET Ducks
      BY DEF Newcomers, Peers
    <3> QED BY <3>1, <3>2, SeatedType
  <2>4. duck' \in [Ducks -> DuckRecords]
    BY <2>1, <2>2, <2>3 DEF TypeOK, DuckRecords
  <2> QED BY <1>9, <2>4, AiredType DEF TypeOK, SeatNew
<1>10. ASSUME NEW d \in Ducks, PerformanceEnds(d) PROVE TypeOK'
  BY <1>1, <1>2, <1>10, AiredType DEF TypeOK, PerformanceEnds
<1>11. ASSUME NEW d \in Ducks, FollowerEnds(d) PROVE TypeOK'
  BY <1>1, <1>2, <1>11, AiredType DEF TypeOK, FollowerEnds
<1>12. ASSUME NEW turned \in SUBSET Ducks, UnitPasses(turned) PROVE TypeOK'
  <2>1. ASSUME NEW d \in turned
        PROVE  [duck[d] EXCEPT !.beat = @ + 1] \in DuckRecords
    <3>1. duck[d] \in DuckRecords
      BY DEF TypeOK
    <3>2. duck[d].beat + 1 \in Beats
      BY <1>12, <3>1, ChoraleAssumption DEF UnitPasses, DuckRecords, Beats
    <3> QED BY <3>1, <3>2 DEF DuckRecords
  <2>2. duck' \in [Ducks -> DuckRecords]
    BY <1>12, <2>1 DEF TypeOK, UnitPasses
  <2>3. listened' \in [Ducks -> 0..Settle]
    BY <1>12, ChoraleAssumption DEF TypeOK, UnitPasses
  <2>4. unheard' \in [Ducks -> SUBSET Ducks]
    BY <1>12 DEF TypeOK, UnitPasses
  <2> QED BY <1>12, <2>2, <2>3, <2>4 DEF TypeOK, UnitPasses
<1>13. CASE UNCHANGED vars
  BY <1>13 DEF TypeOK, vars
<1> QED
  BY <1>3, <1>4, <1>5, <1>6, <1>7, <1>8, <1>9, <1>10, <1>11, <1>12, <1>13
  DEF Next, Tick

\* Ducks are in one of their four states, follow a duck and hear pieces
\* (TypeOK).
THEOREM ChoraleTypeCorrect == Spec => []TypeOK
<1>1. Init => TypeOK
  BY FreshRecords, ChoraleAssumption DEF Init, TypeOK
<1> QED BY <1>1, TypeKept, PTL DEF Spec

-----------------------------------------------------------------------------
(* One conductor.                                                          *)

\* The radio is prompt, a duck listens at all before it conducts, and what a
\* duck can sing every duck of a lower id can: one that does not know the
\* piece being sung would not notice that somebody conducts.
FairFlock ==
    /\ Prompt /\ Settle > 0
    /\ \A d, e \in Ducks : d < e => Knows[e] \subseteq Knows[d]

\* Has listened since before this unit began.
Seasoned(d) == Is(d, "listening") /\ listened[d] > 0

\* Only a listening duck has listened.
Fresh == \A d \in Ducks : ~Is(d, "listening") => listened[d] = 0

\* What was heard of a duck and has not changed since is what is on the air.
Noticed ==
    \A d, e \in Ducks :
        d # e /\ Active(d) /\ Active(e) /\ e \notin unheard[d]
          => peers[d][e] = PieceOnAir(e)

\* Two ducks that listened when this unit began have heard each other.
Met == \A d, e \in Ducks : d # e /\ Seasoned(d) /\ Seasoned(e) => e \in Peers(d)

\* Who conducts beside a duck that listened when this unit began has begun in
\* this unit, and with the lower id.
Beaten ==
    \A c, d \in Ducks :
        Is(c, "conducting") /\ Seasoned(d) => c < d /\ c \in Peers(d)

\* A conductor knows its piece.
Sung == \A c \in Ducks : Is(c, "conducting") => duck[c].piece \in Knows[c]

ChoraleInv ==
    TypeOK /\ Fresh /\ Noticed /\ Met /\ Beaten /\ Sung /\ OneConductor

\* A step that makes nobody a conductor, gives nobody a past as a listener,
\* and makes no duck forget one that is on the air.
Quiet ==
    /\ \A d \in Ducks : Seasoned(d)' => Seasoned(d)
    /\ \A c \in Ducks : Is(c, "conducting")' =>
         Is(c, "conducting") /\ duck'[c].piece = duck[c].piece
    /\ \A d, e \in Ducks :
         d # e /\ Active(d)' /\ Active(e)' /\ e \in Peers(d) => e \in Peers(d)'

LEMMA QuietKeeps ==
  ASSUME ChoraleInv, Quiet
  PROVE  Met' /\ Beaten' /\ Sung' /\ OneConductor'
<1>1. ASSUME NEW d \in Ducks, Seasoned(d)' PROVE Active(d)' /\ ~Is(d, "conducting")'
  BY <1>1 DEF Seasoned, Active, Is
<1>2. ASSUME NEW c \in Ducks, Is(c, "conducting")' PROVE Active(c)'
  BY <1>2 DEF Active, Is
<1>3. Met'
  BY <1>1 DEF ChoraleInv, Quiet, Met
<1>4. Beaten'
  BY <1>1, <1>2 DEF ChoraleInv, Quiet, Beaten
<1>5. Sung' /\ OneConductor'
  BY DEF ChoraleInv, Quiet, Sung, OneConductor
<1> QED BY <1>3, <1>4, <1>5

\* The radio keeps the books: what is not marked as unheard was on the air
\* before the step, and is still.
LEMMA AiredNotices ==
  ASSUME TypeOK, Noticed, NEW heard, Aired(heard),
         \A d, e \in Ducks : d # e /\ Active(d)' /\ Active(e)' =>
           IF <<d, e>> \in heard THEN peers'[d][e] = PieceOnAir(e)'
                                 ELSE peers'[d][e] = peers[d][e]
  PROVE  Noticed'
<1> SUFFICES ASSUME NEW d \in Ducks, NEW e \in Ducks, d # e,
                    Active(d)', Active(e)', e \notin unheard'[d]
             PROVE  peers'[d][e] = PieceOnAir(e)'
  BY DEF Noticed
<1>1. CASE <<d, e>> \in heard
  BY <1>1
<1>2. CASE <<d, e>> \notin heard
  <2>1. e \notin unheard[d] /\ Active(d) /\ Active(e) /\ OnAir(e)' = OnAir(e)
    BY <1>2 DEF Aired
  <2>2. PieceOnAir(e)' = PieceOnAir(e)
    BY <2>1 DEF OnAir
  <2> QED BY <1>2, <2>1, <2>2 DEF Noticed
<1> QED BY <1>1, <1>2

\* A follower that hears a beat follows on or goes back to listening.
LEMMA FollowedState ==
  ASSUME TypeOK, NEW d \in Ducks, NEW e \in Ducks, Is(d, "following")
  PROVE  Followed(d, e).state \in {"following", "listening"}
<1>1. ASSUME NEW f \in DuckRecords PROVE Observes(f, e).state = f.state
  BY DEF Observes, DuckRecords
<1>2. duck[d] \in DuckRecords /\ duck[d].state = "following"
  BY DEF TypeOK, Is
<1>3. ASSUME duck[e].piece \in Knows[d]
      PROVE  /\ Joining(duck[e].piece) \in DuckRecords
             /\ Joining(duck[e].piece).state = "following"
  BY <1>3, FreshRecords, ChoraleAssumption DEF Joining, Begun
<1>4. Listening.state = "listening"
  BY DEF Listening, Begun
<1> QED BY <1>1, <1>2, <1>3, <1>4 DEF Followed

\* A duck that begins to listen, to follow or to be off is no conductor and
\* has not listened.
LEMMA BecomesQuiet ==
  ASSUME ChoraleInv, NEW d \in Ducks, NEW new \in DuckRecords,
         new.state # "conducting", Becomes(d, new)
  PROVE  /\ Fresh'
         /\ \A e \in Ducks : Seasoned(e)' => Seasoned(e)
         /\ \A c \in Ducks : Is(c, "conducting")' =>
              Is(c, "conducting") /\ duck'[c].piece = duck[c].piece
<1>1. /\ duck'[d] = new /\ listened'[d] = 0
      /\ \A e \in Ducks \ {d} : duck'[e] = duck[e] /\ listened'[e] = listened[e]
  BY DEF Becomes, ChoraleInv, TypeOK
<1> QED BY <1>1 DEF ChoraleInv, Fresh, Seasoned, Is

\* A quiet step that leaves the records of ducks on the air alone.
LEMMA QuietStep ==
  ASSUME ChoraleInv, TypeOK', NEW d \in Ducks, NEW new \in DuckRecords,
         new.state # "conducting", Becomes(d, new), Aired({}),
         \A a, b \in Ducks : Active(a)' => peers'[a][b] = peers[a][b]
  PROVE  ChoraleInv'
<1>1. Quiet /\ Fresh'
  BY BecomesQuiet DEF Quiet, Peers
<1>2. Noticed'
  BY AiredNotices DEF ChoraleInv
<1> QED BY <1>1, <1>2, QuietKeeps DEF ChoraleInv

LEMMA ChoraleInvKept == FairFlock /\ ChoraleInv /\ [Next]_vars => ChoraleInv'
<1> SUFFICES ASSUME FairFlock, ChoraleInv, [Next]_vars PROVE ChoraleInv'
  OBVIOUS
<1>1. TypeOK /\ TypeOK'
  BY TypeKept DEF ChoraleInv
<1>2. /\ Off \in DuckRecords /\ Off.state # "conducting"
      /\ Listening \in DuckRecords /\ Listening.state # "conducting"
  BY FreshRecords DEF Off, Listening, Begun
<1>3. ASSUME NEW d \in Ducks, Activate(d) PROVE ChoraleInv'
  BY <1>1, <1>2, <1>3, QuietStep DEF Activate
<1>4. ASSUME NEW d \in Ducks, Deactivate(d) PROVE ChoraleInv'
  <2>1. Active(d)' = FALSE
    BY <1>1, <1>4 DEF Deactivate, Becomes, Active, Is, Off, Begun, TypeOK
  <2>2. \A a, b \in Ducks : Active(a)' => peers'[a][b] = peers[a][b]
    BY <1>1, <1>4, <2>1 DEF Deactivate, TypeOK
  <2> QED BY <1>1, <1>2, <1>4, <2>2, QuietStep DEF Deactivate
<1>5. ASSUME NEW d \in Ducks, NEW e \in Ducks, Hear(d, e) PROVE ChoraleInv'
  <2>1. PieceOnAir(e) \in Pieces \cup {Idle}
    BY <1>1 DEF TypeOK, DuckRecords, PieceOnAir
  <2>2. \A a, b \in Ducks :
          peers'[a][b] = IF a = d /\ b = e THEN PieceOnAir(e) ELSE peers[a][b]
    BY <1>1, <1>5 DEF Hear, TypeOK
  <2>3. \A c \in Ducks : c # d => duck'[c] = duck[c]
    BY <1>1, <1>5 DEF Hear, TypeOK
  <2>4. \/ duck'[d] = duck[d]
        \/ Is(d, "following") /\ duck'[d].state \in {"following", "listening"}
    BY <1>1, <1>5, FollowedState DEF Hear, Follows, TypeOK
  <2>5. listened' = listened
    BY <1>5 DEF Hear
  <2>6. Fresh' /\ \A c \in Ducks : Seasoned(c)' => Seasoned(c)
    BY <2>3, <2>4, <2>5 DEF ChoraleInv, Fresh, Seasoned, Is
  <2>7. \A c \in Ducks : Is(c, "conducting")' =>
          Is(c, "conducting") /\ duck'[c].piece = duck[c].piece
    BY <2>3, <2>4 DEF Is
  <2>8. \A a, b \in Ducks : b \in Peers(a) => b \in Peers(a)'
    BY <2>1, <2>2, ChoraleAssumption DEF Peers
  <2>9. Quiet
    BY <2>6, <2>7, <2>8 DEF Quiet
  <2>10. Noticed'
    <3>1. PieceOnAir(e)' = PieceOnAir(e)
      BY <1>5, <2>3 DEF Hear, PieceOnAir, Is
    <3>2. \A a, b \in Ducks : <<a, b>> \in {<<d, e>>} <=> a = d /\ b = e
      OBVIOUS
    <3>3. Aired({<<d, e>>})
      BY <1>5 DEF Hear
    <3> QED BY <1>1, <2>2, <3>1, <3>2, <3>3, AiredNotices DEF ChoraleInv
  <2> QED BY <1>1, <2>6, <2>9, <2>10, QuietKeeps DEF ChoraleInv
<1>6. ASSUME NEW d \in Ducks, NEW e \in Ducks, GoesStale(d, e) PROVE ChoraleInv'
  <2>1. duck' = duck /\ listened' = listened /\ ~Active(e)
    BY <1>6 DEF GoesStale, FairFlock
  <2>2. \A a, b \in Ducks : b # e => peers'[a][b] = peers[a][b]
    BY <1>1, <1>6 DEF GoesStale, TypeOK
  <2>3. \A c \in Ducks : Active(c)' = Active(c) /\ Seasoned(c)' = Seasoned(c)
    BY <2>1 DEF Active, Seasoned, Is
  <2>4. Quiet /\ Fresh'
    BY <2>1, <2>2, <2>3 DEF Quiet, Peers, Is, ChoraleInv, Fresh
  <2>5. Noticed'
    BY <1>1, <1>6, <2>1, <2>2, <2>3, AiredNotices DEF GoesStale, ChoraleInv
  <2> QED BY <1>1, <2>4, <2>5, QuietKeeps DEF ChoraleInv
<1>7. ASSUME NEW d \in Ducks, Join(d) PROVE ChoraleInv'
  <2>1. PICK e \in Joinable(d) : Becomes(d, Joining(peers[d][e]))
    BY <1>7 DEF Join
  <2>2. /\ Joining(peers[d][e]) \in DuckRecords
        /\ Joining(peers[d][e]).state # "conducting"
    BY FreshRecords, ChoraleAssumption DEF Joinable, Joining, Begun
  <2> QED BY <1>1, <1>7, <2>1, <2>2, QuietStep DEF Join
<1>8. ASSUME NEW d \in Ducks, Conduct(d) PROVE ChoraleInv'
  <2>1. PICK p \in Knows[d], r \in Seated(<<d>>, Peers(d)) :
          Becomes(d, Conducting(p, r))
    BY <1>8 DEF Conduct
  <2>2. /\ duck'[d].state = "conducting" /\ duck'[d].piece = p
        /\ listened'[d] = 0
        /\ \A e \in Ducks \ {d} : duck'[e] = duck[e] /\ listened'[e] = listened[e]
    BY <1>1, <2>1 DEF Becomes, TypeOK, Conducting, Begun
  <2>3. peers' = peers /\ Peers(d)' = Peers(d) /\ Seasoned(d)
    BY <1>8, ChoraleAssumption DEF Conduct, MayConduct, Seasoned, FairFlock, Peers
  <2>4. \A e \in Ducks : Seasoned(e)' => e # d /\ Seasoned(e)
    BY <2>2 DEF Seasoned, Is
  <2>5. Fresh' /\ Met' /\ Sung'
    BY <2>2, <2>3, <2>4 DEF ChoraleInv, Fresh, Met, Sung, Is, Peers
  <2>6. \A c \in Ducks : ~Is(c, "conducting")
    <3> SUFFICES ASSUME NEW c \in Ducks, Is(c, "conducting") PROVE FALSE
      OBVIOUS
    <3>1. c < d /\ c \in Peers(d)
      BY <2>3 DEF ChoraleInv, Beaten
    <3>2. d < c
      BY <1>8, <3>1 DEF Conduct, MayConduct
    <3> QED BY <3>1, <3>2, ChoraleAssumption
  <2>7. OneConductor'
    BY <2>2, <2>6 DEF OneConductor, Is
  <2>8. Beaten'
    <3> SUFFICES ASSUME NEW c \in Ducks, NEW e \in Ducks,
                        Is(c, "conducting")', Seasoned(e)'
                 PROVE  c < e /\ c \in Peers(e)'
      BY DEF Beaten
    <3>1. c = d
      BY <2>2, <2>6 DEF Is
    <3>2. e \in Peers(d) /\ d \in Peers(e)
      BY <2>3, <2>4 DEF ChoraleInv, Met
    <3>3. d < e
      BY <1>8, <3>2 DEF Conduct, MayConduct
    <3> QED BY <2>3, <3>1, <3>2, <3>3 DEF Peers
  <2>9. Noticed'
    BY <1>1, <1>8, AiredNotices DEF Conduct, ChoraleInv
  <2> QED BY <1>1, <2>5, <2>7, <2>8, <2>9 DEF ChoraleInv
<1>9. ASSUME NEW d \in Ducks, SeatNew(d) PROVE ChoraleInv'
  <2>1. PICK r \in Seated(duck[d].roster, Newcomers(d)) :
          duck' = [duck EXCEPT ![d].roster = r]
    BY <1>9 DEF SeatNew
  <2>2. \A c \in Ducks : /\ duck'[c].state = duck[c].state
                         /\ duck'[c].piece = duck[c].piece
    BY <1>1, <2>1 DEF TypeOK, DuckRecords
  <2>3. listened' = listened /\ peers' = peers
    BY <1>9 DEF SeatNew
  <2>4. Quiet /\ Fresh'
    BY <2>2, <2>3 DEF Quiet, Seasoned, Is, Peers, ChoraleInv, Fresh
  <2>5. Noticed'
    BY <1>1, <1>9, <2>3, AiredNotices DEF SeatNew, ChoraleInv
  <2> QED BY <1>1, <2>4, <2>5, QuietKeeps DEF ChoraleInv
<1>10. ASSUME NEW d \in Ducks, PerformanceEnds(d) PROVE ChoraleInv'
  BY <1>1, <1>2, <1>10, QuietStep DEF PerformanceEnds
<1>11. ASSUME NEW d \in Ducks, FollowerEnds(d) PROVE ChoraleInv'
  BY <1>1, <1>2, <1>11, QuietStep DEF FollowerEnds
<1>12. ASSUME NEW turned \in SUBSET Ducks, UnitPasses(turned) PROVE ChoraleInv'
  <2>1. \A c \in Ducks : /\ duck'[c].state = duck[c].state
                         /\ duck'[c].piece = duck[c].piece
    BY <1>1, <1>12 DEF TypeOK, DuckRecords, UnitPasses
  <2>2. /\ peers' = peers
        /\ \A d \in Ducks : unheard[d] = {} /\ ~TickDue(d)
    BY <1>12 DEF UnitPasses, FairFlock
  <2>3. \A d, e \in Ducks : d # e /\ Active(d) /\ Active(e)
                              => peers[d][e] = PieceOnAir(e)
    BY <2>2 DEF ChoraleInv, Noticed
  <2>4. \A d \in Ducks : PieceOnAir(d)' = PieceOnAir(d) /\ Active(d)' = Active(d)
    BY <2>1 DEF PieceOnAir, Active, Is
  <2>5. Noticed'
    BY <2>2, <2>3, <2>4 DEF Noticed
  <2>6. Fresh'
    BY <1>1, <1>12, <2>1 DEF ChoraleInv, Fresh, Is, UnitPasses
  <2>7. Met'
    BY <1>1, <2>1, <2>2, <2>3, ChoraleAssumption
    DEF Met, Seasoned, Is, Active, Peers, PieceOnAir
  <2>8. Sung' /\ OneConductor'
    BY <2>1 DEF ChoraleInv, Sung, OneConductor, Is
  <2>9. Beaten'
    <3> SUFFICES ASSUME NEW c \in Ducks, NEW d \in Ducks,
                        Is(c, "conducting"), Is(d, "listening")
                 PROVE  c < d /\ c \in Peers(d)'
      BY <2>1 DEF Beaten, Seasoned, Is
    <3>1. c # d /\ peers[d][c] = duck[c].piece /\ duck[c].piece \in Knows[c]
      BY <2>3 DEF Is, Active, PieceOnAir, ChoraleInv, Sung
    <3>2. c \in Peers(d)
      BY <3>1, ChoraleAssumption DEF Peers
    <3>3. duck[c].piece \notin Knows[d]
      BY <2>2, <3>1, <3>2 DEF TickDue, Joinable
    <3>4. c < d
      BY <3>1, <3>3, ChoraleAssumption DEF FairFlock
    <3> QED BY <2>2, <3>2, <3>4 DEF Peers
  <2> QED BY <1>1, <2>5, <2>6, <2>7, <2>8, <2>9 DEF ChoraleInv
<1>13. CASE UNCHANGED vars
  BY <1>13 DEF vars, ChoraleInv, TypeOK, Fresh, Noticed, Met, Beaten, Sung,
     OneConductor, Seasoned, Is, Active, Peers, PieceOnAir
<1> QED
  BY <1>3, <1>4, <1>5, <1>6, <1>7, <1>8, <1>9, <1>10, <1>11, <1>12, <1>13
  DEF Next, Tick

\* With a prompt radio two ducks never conduct at once, however many there are
\* and whenever they come and go (OneConductor): whoever conducts beside a
\* listener has begun in the listener's last unit, with the lower id, and the
\* listener knows it is not the lowest (chorale.rs SETTLE).
THEOREM ConductsAlone == FairFlock => (Spec => []OneConductor)
<1> SUFFICES ASSUME FairFlock PROVE Spec => []OneConductor
  OBVIOUS
<1>1. Init => ChoraleInv
  BY FreshRecords, ChoraleAssumption DEF Init, ChoraleInv, TypeOK, Fresh,
     Noticed, Met, Beaten, Sung, OneConductor, Seasoned, Is, Active, Off, Begun
<1>2. ChoraleInv /\ [Next]_vars => ChoraleInv'
  BY ChoraleInvKept
<1>3. ChoraleInv => OneConductor
  BY DEF ChoraleInv
<1> QED BY <1>1, <1>2, <1>3, PTL DEF Spec


-----------------------------------------------------------------------------
(* A line of one's own.                                                    *)

\* A follower that has heard what its leader has on the air sings the leader's
\* piece from the leader's roster.
Copied ==
    \A d, e \in Ducks :
        /\ Is(d, "following") /\ duck[d].leader = e
        /\ Is(e, "conducting") /\ e \notin unheard[d]
        => duck[d].piece = duck[e].piece /\ duck[d].roster = duck[e].roster

\* A follower that has heard a beat has a leader.
Led ==
    \A d \in Ducks :
        Is(d, "following") /\ duck[d].observed > 0 => duck[d].leader # None

\* A conductor has a piece on the air.
Announced == \A c \in Ducks : Is(c, "conducting") => duck[c].piece # Idle

ScoreInv == TypeOK /\ Copied /\ Led /\ Announced

\* The books of the radio say when a copy is out of date.
LEMMA AiredCopies ==
  ASSUME ScoreInv, NEW heard, Aired(heard), Announced',
         \A d, e \in Ducks :
           Is(d, "following")' /\ duck'[d].leader = e /\ Is(e, "conducting")' =>
             IF <<d, e>> \in heard
               THEN /\ duck'[d].piece = duck'[e].piece
                    /\ duck'[d].roster = duck'[e].roster
               ELSE duck'[d] = duck[d]
  PROVE  Copied'
<1> SUFFICES ASSUME NEW d \in Ducks, NEW e \in Ducks,
                    Is(d, "following")', duck'[d].leader = e,
                    Is(e, "conducting")', e \notin unheard'[d], <<d, e>> \notin heard
             PROVE  duck'[d].piece = duck'[e].piece /\ duck'[d].roster = duck'[e].roster
  BY DEF Copied
<1>1. duck'[d] = duck[d] /\ Is(d, "following") /\ d # e
  BY DEF Is
<1>2. Active(d)' /\ Active(e)'
  BY DEF Active, Is
<1>3. e \notin unheard[d] /\ Active(e) /\ OnAir(e)' = OnAir(e)
  BY <1>1, <1>2 DEF Aired
<1>4. Is(e, "conducting") /\ duck'[e].piece = duck[e].piece /\ duck'[e].roster = duck[e].roster
  BY <1>3 DEF OnAir, PieceOnAir, ScoreInv, Announced
<1> QED
  BY <1>1, <1>3, <1>4 DEF ScoreInv, Copied

\* A duck that begins anew follows nobody yet.
LEMMA BecomesCopies ==
  ASSUME ScoreInv, TypeOK', NEW d \in Ducks, NEW new \in DuckRecords,
         new.leader = None, new.observed = 0,
         new.state = "conducting" => new.piece # Idle,
         Becomes(d, new), Aired({})
  PROVE  ScoreInv'
<1>1. duck'[d] = new /\ \A e \in Ducks \ {d} : duck'[e] = duck[e]
  BY DEF Becomes, ScoreInv, TypeOK
<1>2. None \notin Ducks
  BY ChoraleAssumption
<1>3. Led' /\ Announced'
  BY <1>1 DEF ScoreInv, Led, Announced, Is
<1>4. Copied'
  BY <1>1, <1>2, <1>3, AiredCopies
<1> QED BY <1>3, <1>4 DEF ScoreInv

\* What was heard is what is on the air.
LEMMA HearCopies ==
  ASSUME ScoreInv, TypeOK', NEW d \in Ducks, NEW e \in Ducks, Hear(d, e)
  PROVE  ScoreInv'
<1>1. d # e /\ Active(d) /\ Active(e) /\ Aired({<<d, e>>})
  BY DEF Hear
<1>2. None \notin Ducks
  BY ChoraleAssumption
<1>3. CASE ~Follows(d, e)
  <2>1. duck' = duck
    BY <1>3 DEF Hear
  <2>2. Led' /\ Announced'
    BY <2>1 DEF ScoreInv, Led, Announced, Is
  <2>3. ~(Is(d, "following") /\ duck[d].leader = e /\ Is(e, "conducting"))
    BY <1>3 DEF Follows
  <2>4. Copied'
    BY <1>1, <2>1, <2>2, <2>3, AiredCopies DEF Is
  <2> QED BY <2>2, <2>4 DEF ScoreInv
<1>4. CASE Follows(d, e)
  <2>1. /\ duck'[d] = Followed(d, e)
        /\ \A a \in Ducks \ {d} : duck'[a] = duck[a]
    BY <1>4 DEF Hear, ScoreInv, TypeOK
  <2>2. Is(d, "following") /\ Is(e, "conducting")
    BY <1>4 DEF Follows
  <2>3. ASSUME NEW f \in DuckRecords
        PROVE  /\ Observes(f, e).leader = e /\ Observes(f, e).state = f.state
               /\ Observes(f, e).roster = duck[e].roster
               /\ Observes(f, e).piece = f.piece
    BY DEF Observes, DuckRecords
  <2>4. duck[d] \in DuckRecords
    BY DEF ScoreInv, TypeOK
  <2>5. ASSUME duck[e].piece \in Knows[d]
        PROVE  /\ Joining(duck[e].piece) \in DuckRecords
               /\ Joining(duck[e].piece).piece = duck[e].piece
    BY <2>5, FreshRecords, ChoraleAssumption DEF Joining, Begun
  <2>6. \/ Followed(d, e) = Listening
        \/ /\ Followed(d, e).leader = e
           /\ Followed(d, e).roster = duck[e].roster
           /\ Followed(d, e).piece = duck[e].piece
    BY <2>3, <2>4, <2>5 DEF Followed, Restarted
  <2>7. Followed(d, e).state \in {"following", "listening"}
    BY <2>2, FollowedState DEF ScoreInv
  <2>8. Listening.state = "listening"
    BY DEF Listening, Begun
  <2>9. Led' /\ Announced'
    BY <1>2, <2>1, <2>6, <2>7, <2>8 DEF ScoreInv, Led, Announced, Is
  <2>10. Copied'
    BY <1>1, <2>1, <2>6, <2>7, <2>8, <2>9, AiredCopies DEF Is
  <2> QED BY <2>9, <2>10 DEF ScoreInv
<1> QED BY <1>3, <1>4

\* Every step keeps the copies in order.
LEMMA ScoreKept == ScoreInv /\ [Next]_vars => ScoreInv'
<1> SUFFICES ASSUME ScoreInv, [Next]_vars PROVE ScoreInv'
  OBVIOUS
<1>1. TypeOK'
  BY TypeKept DEF ScoreInv
<1>2. /\ Off \in DuckRecords /\ Listening \in DuckRecords
      /\ \A new \in {Off, Listening} :
           new.leader = None /\ new.observed = 0 /\ new.state # "conducting"
  BY FreshRecords DEF Off, Listening, Begun
<1>3. ASSUME NEW d \in Ducks, Activate(d) \/ Deactivate(d) PROVE ScoreInv'
  BY <1>1, <1>2, <1>3, BecomesCopies DEF Activate, Deactivate
<1>4. ASSUME NEW d \in Ducks, PerformanceEnds(d) \/ FollowerEnds(d) PROVE ScoreInv'
  BY <1>1, <1>2, <1>4, BecomesCopies DEF PerformanceEnds, FollowerEnds
<1>5. ASSUME NEW d \in Ducks, Join(d) PROVE ScoreInv'
  <2>1. PICK e \in Joinable(d) : Becomes(d, Joining(peers[d][e]))
    BY <1>5 DEF Join
  <2>2. Joining(peers[d][e]) \in DuckRecords
    BY FreshRecords, ChoraleAssumption DEF Joinable
  <2>3. /\ Joining(peers[d][e]).leader = None /\ Joining(peers[d][e]).observed = 0
        /\ Joining(peers[d][e]).state = "following"
    BY DEF Joining, Begun
  <2> QED BY <1>1, <1>5, <2>1, <2>2, <2>3, BecomesCopies DEF Join
<1>6. ASSUME NEW d \in Ducks, Conduct(d) PROVE ScoreInv'
  <2>1. PICK p \in Knows[d], r \in Seated(<<d>>, Peers(d)) :
          Becomes(d, Conducting(p, r))
    BY <1>6 DEF Conduct
  <2>2. r \in Rosters
    <3>1. <<d>> \in Rosters
      BY ChoraleAssumption DEF Rosters
    <3> QED BY <3>1, SeatedType DEF Peers
  <2>3. p \in Pieces /\ p # Idle
    BY ChoraleAssumption
  <2>4. /\ Conducting(p, r) \in DuckRecords /\ Conducting(p, r).piece # Idle
        /\ Conducting(p, r).leader = None /\ Conducting(p, r).observed = 0
    BY <2>2, <2>3, FreshRecords DEF Conducting, Begun
  <2> QED BY <1>1, <1>6, <2>1, <2>4, BecomesCopies DEF Conduct
<1>7. ASSUME NEW d \in Ducks, SeatNew(d) PROVE ScoreInv'
  <2>1. /\ Is(d, "conducting")
        /\ \A e \in Ducks \ {d} : duck'[e] = duck[e]
        /\ duck'[d].state = duck[d].state /\ duck'[d].piece = duck[d].piece
    BY <1>7 DEF SeatNew, ScoreInv, TypeOK, DuckRecords
  <2>2. Led' /\ Announced'
    BY <2>1 DEF ScoreInv, Led, Announced, Is
  <2>3. Copied'
    BY <1>7, <2>1, <2>2, AiredCopies DEF SeatNew, Is
  <2> QED BY <1>1, <2>2, <2>3 DEF ScoreInv
<1>8. ASSUME NEW d \in Ducks, NEW e \in Ducks, Hear(d, e) PROVE ScoreInv'
  BY <1>1, <1>8, HearCopies
<1>9. ASSUME NEW d \in Ducks, NEW e \in Ducks, GoesStale(d, e) PROVE ScoreInv'
  <2>1. duck' = duck /\ Aired({})
    BY <1>9 DEF GoesStale
  <2>2. Led' /\ Announced'
    BY <2>1 DEF ScoreInv, Led, Announced, Is
  <2>3. Copied'
    BY <2>1, <2>2, AiredCopies
  <2> QED BY <1>1, <2>2, <2>3 DEF ScoreInv
<1>10. ASSUME NEW turned \in SUBSET Ducks, UnitPasses(turned) PROVE ScoreInv'
  <2>1. ASSUME NEW d \in Ducks
        PROVE  /\ duck'[d].state = duck[d].state /\ duck'[d].piece = duck[d].piece
               /\ duck'[d].roster = duck[d].roster /\ duck'[d].leader = duck[d].leader
               /\ duck'[d].observed = duck[d].observed
               /\ unheard[d] \subseteq unheard'[d]
    BY <1>10 DEF UnitPasses, ScoreInv, TypeOK, DuckRecords
  <2> QED BY <1>1, <2>1 DEF ScoreInv, Copied, Led, Announced, Is
<1>11. CASE UNCHANGED vars
  BY <1>1, <1>11 DEF vars, ScoreInv, Copied, Led, Announced, Is
<1> QED
  BY <1>3, <1>4, <1>5, <1>6, <1>7, <1>8, <1>9, <1>10, <1>11 DEF Next, Tick

\* The seats below a seat, in the order the lines are dealt.
Below(roster, seat) ==
    {i \in DOMAIN roster :
       \/ Register[roster[i]] < Register[roster[seat]]
       \/ Register[roster[i]] = Register[roster[seat]] /\ i < seat}

\* Voices and seats put the singers in one order, and a seat has fewer below it
\* the lower it is, so an ensemble that has lines for all gives each its own.
LEMMA LinesDiffer ==
  ASSUME NEW roster \in Rosters, Len(roster) <= 4,
         NEW i \in DOMAIN roster, NEW j \in DOMAIN roster, i \in Below(roster, j)
  PROVE  Line(roster, i) # Line(roster, j)
<1> DEFINE n == Len(roster)
<1>0. roster \in Seq(Ducks)
  BY DEF Rosters
<1>1. n \in 0..4 /\ DOMAIN roster = 1..n
  <2>1. n \in Nat /\ DOMAIN roster = 1..n
    BY <1>0
  <2> QED BY <2>1
<1> HIDE DEF n
<1>2. ASSUME NEW k \in DOMAIN roster PROVE Register[roster[k]] \in Nat
  <2>1. roster[k] \in Ducks
    BY <1>0
  <2> QED BY <2>1, ChoraleAssumption
<1>3. /\ Below(roster, i) \subseteq Below(roster, j) \ {i}
      /\ Below(roster, j) \subseteq (1..n) \ {j}
  BY <1>1, <1>2 DEF Below
<1>4. IsFiniteSet(1..n) /\ Cardinality(1..n) = n
  BY <1>1, FS_Interval, SMTT(30)
<1>5. /\ IsFiniteSet(Below(roster, i)) /\ Cardinality(Below(roster, i)) \in Nat
      /\ IsFiniteSet(Below(roster, j)) /\ Cardinality(Below(roster, j)) \in Nat
  BY <1>3, <1>4, FS_Subset, FS_CardinalityType
<1>6. Cardinality(Below(roster, i)) < Cardinality(Below(roster, j))
  <2>1. Cardinality(Below(roster, j) \ {i}) = Cardinality(Below(roster, j)) - 1
    BY <1>5, FS_RemoveElement
  <2>2. IsFiniteSet(Below(roster, j) \ {i})
    BY <1>5, FS_RemoveElement
  <2>3. Cardinality(Below(roster, i)) <= Cardinality(Below(roster, j) \ {i})
    BY <1>3, <2>2, FS_Subset
  <2> QED BY <1>5, <2>1, <2>3
<1>7. Cardinality(Below(roster, j)) < n
  <2>1. Cardinality((1..n) \ {j}) = n - 1 /\ IsFiniteSet((1..n) \ {j})
    BY <1>1, <1>4, FS_RemoveElement
  <2>2. Cardinality(Below(roster, j)) <= Cardinality((1..n) \ {j})
    BY <1>3, <2>1, FS_Subset
  <2> QED BY <1>1, <1>5, <2>1, <2>2
<1> DEFINE a == Cardinality(Below(roster, i)) + 1
           b == Cardinality(Below(roster, j)) + 1
<1>8. a \in 1..n /\ b \in 1..n /\ a < b
  BY <1>1, <1>5, <1>6, <1>7
<1>9. /\ Line(roster, i) =
           (IF a <= Len(Ensemble(n)) THEN Ensemble(n)[a] ELSE "soprano")
      /\ Line(roster, j) =
           (IF b <= Len(Ensemble(n)) THEN Ensemble(n)[b] ELSE "soprano")
  BY DEF Line, Below, n
<1> HIDE DEF a, b
<1>10. n = 1 \/ n = 2 \/ n = 3 \/ n = 4
  BY <1>1, <1>8
<1>11. Len(Ensemble(n)) = n
  BY <1>10 DEF Ensemble
<1>12. Ensemble(n)[a] # Ensemble(n)[b]
  <2>1. CASE n = 1
    BY <1>8, <2>1
  <2>2. CASE n = 2
    <3>1. a = 1 /\ b = 2
      BY <1>8, <2>2
    <3> QED BY <2>2, <3>1 DEF Ensemble
  <2>3. CASE n = 3
    <3>1. (a = 1 /\ b = 2) \/ (a = 1 /\ b = 3) \/ (a = 2 /\ b = 3)
      BY <1>8, <2>3
    <3> QED BY <2>3, <3>1 DEF Ensemble
  <2>4. CASE n = 4
    <3>1. a \in {1, 2, 3} /\ b \in {2, 3, 4} /\ a < b
      BY <1>8, <2>4
    <3>2. Ensemble(4) = <<"bass", "tenor", "alto", "soprano">>
      BY DEF Ensemble
    <3> QED BY <2>4, <3>1, <3>2
  <2> QED BY <1>10, <2>1, <2>2, <2>3, <2>4
<1> QED BY <1>8, <1>9, <1>11, <1>12

LEMMA ScoreInvHolds == Spec => []ScoreInv
<1>1. Init => ScoreInv
  <2> SUFFICES ASSUME Init PROVE ScoreInv OBVIOUS
  <2>1. TypeOK
    BY FreshRecords, ChoraleAssumption DEF Init, TypeOK
  <2>2. \A d \in Ducks : duck[d].state = "off"
    BY DEF Init, Off, Begun
  <2> QED BY <2>1, <2>2 DEF ScoreInv, Copied, Led, Announced, Is
<1> QED BY <1>1, ScoreKept, PTL DEF Spec

\* Two ducks that sing and have heard what their conductor has on the air sing
\* the same piece, each a line of its own while there are lines to go round
\* (chorale.rs seat_all, replayed by every duck over the roster it heard): for any
\* number of ducks, any voices, and a radio that is prompt or not.
THEOREM EachItsOwnLine == Spec => []OwnLine
<1>1. ScoreInv => OwnLine
  <2> SUFFICES ASSUME ScoreInv, NEW d \in Ducks, NEW e \in Ducks,
                      NEW i \in DOMAIN duck[d].roster, NEW j \in DOMAIN duck[e].roster,
                      d # e, Sings(d), Sings(e), Leader(d) = Leader(e),
                      Is(Leader(d), "conducting"),
                      Leader(d) \notin unheard[d] \cup unheard[e],
                      duck[d].roster[i] = d, duck[e].roster[j] = e
               PROVE  /\ duck[d].piece = duck[e].piece
                      /\ Len(duck[d].roster) <= 4 =>
                           Line(duck[d].roster, i) # Line(duck[e].roster, j)
    BY DEF OwnLine
  <2> DEFINE c == Leader(d)
  <2>1. LockAt > 0
    BY ChoraleAssumption
  <2>2. duck[d] \in DuckRecords /\ duck[e] \in DuckRecords
    BY DEF ScoreInv, TypeOK
  <2>3. c \in Ducks
    BY <2>1, <2>2 DEF Leader, Sings, Locked, ScoreInv, Led, Is, DuckRecords
  <2>4. duck[d].piece = duck[c].piece /\ duck[d].roster = duck[c].roster
    BY <2>3 DEF Leader, Sings, Locked, ScoreInv, Copied, Is
  <2>5. duck[e].piece = duck[c].piece /\ duck[e].roster = duck[c].roster
    BY <2>3 DEF Leader, Sings, Locked, ScoreInv, Copied, Is
  <2>6. ASSUME Len(duck[d].roster) <= 4
        PROVE  Line(duck[d].roster, i) # Line(duck[e].roster, j)
    <3> DEFINE r == duck[d].roster
    <3>1. r \in Rosters /\ duck[e].roster = r
      BY <2>2, <2>4, <2>5 DEF DuckRecords
    <3>2. r \in Seq(Ducks) /\ i # j /\ i \in DOMAIN r /\ j \in DOMAIN r
      BY <3>1 DEF Rosters
    <3> HIDE DEF r
    <3>3. Register[r[i]] \in Nat /\ Register[r[j]] \in Nat
      <4>1. r[i] \in Ducks /\ r[j] \in Ducks
        BY <3>2
      <4> QED BY <4>1, ChoraleAssumption
    <3>4. i \in Nat /\ j \in Nat
      BY <3>2
    <3>5. i \in Below(r, j) \/ j \in Below(r, i)
      BY <3>2, <3>3, <3>4 DEF Below
    <3>6. Line(r, i) # Line(r, j)
      BY <2>6, <3>1, <3>2, <3>5, LinesDiffer DEF r
    <3> QED BY <3>1, <3>6 DEF r
  <2> QED BY <2>4, <2>5, <2>6
<1> QED BY <1>1, ScoreInvHolds, PTL
=============================================================================

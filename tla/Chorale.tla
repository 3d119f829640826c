-------------------------------- MODULE Chorale --------------------------------
(***************************************************************************)
(* Several ducks singing one piece (robotd/src/chorale.rs): who conducts,  *)
(* who follows, and which line of the score each one sings.                *)
(*                                                                         *)
(* Ducks share a radio and nothing else.  Each puts a beacon on the air    *)
(* and hears the others': an idle one when it is willing or follows, and   *)
(* when it conducts one with the piece, a counter of beats and the roster  *)
(* of singers.  Hearing a beacon and the tick of the control loop are      *)
(* steps; what a duck does of its own happens in its tick.                 *)
(*                                                                         *)
(* Time is counted in units that a beat lasts at least one of.  With a     *)
(* prompt radio what changes on the air is heard by everyone in the unit   *)
(* it changed in, and a tick never waits for the next.  Without it nothing *)
(* is heard in time and any record may go stale.                           *)
(***************************************************************************)
EXTENDS Integers, FiniteSets, SequencesExt

CONSTANTS
    Ducks,       \* by their beacon id
    Register,    \* Register[d]: how high its voice is
    Pieces, Idle,\* what a beacon names: a piece, or none
    Unheard,     \* in place of a beacon that was never heard
    Knows,       \* Knows[d]: the pieces its build can sing
    LastBeat,    \* the counter when the piece is over
    LockAt,      \* beats a follower needs before it sings
    BackFrom, BackTo,  \* steps back of the counter that are a restart
    Settle,      \* units a duck listens before it conducts
    MaxRoster,   \* the seats in a beacon
    Leavers,     \* the ducks somebody tells to stop again
    None,        \* no leader, no beat
    Prompt       \* the radio is prompt

ASSUME ChoraleAssumption ==
    /\ Ducks \subseteq Nat /\ IsFiniteSet(Ducks) /\ None \notin Nat
    /\ Register \in [Ducks -> Nat]
    /\ Idle \notin Pieces /\ Unheard \notin Pieces \cup {Idle}
    /\ Knows \in [Ducks -> SUBSET Pieces]
    /\ Leavers \subseteq Ducks /\ {LastBeat, Settle} \subseteq Nat
    /\ {LockAt, BackFrom, BackTo, MaxRoster} \subseteq Nat \ {0}
    /\ Prompt \in BOOLEAN

VARIABLES
    duck,        \* what each duck is doing
    peers,       \* the piece in the last beacon heard of each other duck
    listened,    \* units since a duck began to listen
    unheard      \* the ducks whose beacon has changed and was not heard yet

vars == <<duck, peers, listened, unheard>>

Begun(state, piece, roster) ==
    [state |-> state, piece |-> piece, beat |-> 0, roster |-> roster,
     leader |-> None, lastBeat |-> None, observed |-> 0]

Off == Begun("off", Idle, <<>>)
Listening == Begun("listening", Idle, <<>>)
Conducting(piece, roster) == Begun("conducting", piece, roster)
\* The roster is that of the first beat heard.
Joining(piece) == Begun("following", piece, <<>>)

Is(d, state) == duck[d].state = state
Active(d) == ~Is(d, "off")

Beats == 0..(LastBeat + 1)
Rosters == {r \in Seq(Ducks) : Len(r) <= MaxRoster}

DuckRecords ==
    [state : {"off", "listening", "conducting", "following"},
     piece : Pieces \cup {Idle}, beat : Beats, roster : Rosters,
     leader : Ducks \cup {None}, lastBeat : Beats \cup {None},
     observed : 0..LockAt]

TypeOK ==
    /\ duck \in [Ducks -> DuckRecords]
    /\ peers \in [Ducks -> [Ducks -> Pieces \cup {Idle, Unheard}]]
    /\ listened \in [Ducks -> 0..Settle]
    /\ unheard \in [Ducks -> SUBSET Ducks]

Init ==
    /\ duck = [d \in Ducks |-> Off]
    /\ peers = [d \in Ducks |-> [e \in Ducks |-> Unheard]]
    /\ listened = [d \in Ducks |-> 0]
    /\ unheard = [d \in Ducks |-> {}]

-----------------------------------------------------------------------------
(* The beacons.                                                            *)

\* The piece, the beat and the roster on the air; followers advertise idle.
PieceOnAir(d) == IF Is(d, "conducting") THEN duck[d].piece ELSE Idle

OnAir(d) ==
    <<PieceOnAir(d), IF Is(d, "conducting") THEN duck[d].beat ELSE 0,
      IF Is(d, "conducting") THEN duck[d].roster ELSE <<>> >>

Peers(d) == {e \in Ducks : peers[d][e] # Unheard}
Joinable(d) == {e \in Peers(d) : peers[d][e] \in Knows[d]}

\* What is new on the air; `heard` are the pairs that hear in this step.
Aired(heard) ==
    unheard' = [d \in Ducks |->
      {e \in Ducks \ {d} :
         /\ Active(d)' /\ Active(e)'
         /\ <<d, e>> \notin heard
         /\ e \in unheard[d] \/ ~Active(d) \/ ~Active(e) \/ OnAir(e)' # OnAir(e)}]

Becomes(d, new) ==
    /\ duck' = [duck EXCEPT ![d] = new]
    /\ listened' = [listened EXCEPT ![d] = 0]

-----------------------------------------------------------------------------
(* set_active.                                                             *)

Activate(d) ==
    /\ Is(d, "off")
    /\ Becomes(d, Listening)
    /\ Aired({}) /\ UNCHANGED peers

Deactivate(d) ==
    /\ Active(d) /\ d \in Leavers
    /\ Becomes(d, Off)
    /\ peers' = [peers EXCEPT ![d] = [e \in Ducks |-> Unheard]]
    /\ Aired({})

-----------------------------------------------------------------------------
(* heard.                                                                  *)

\* Mutant: the piece is not read again.
RestartedByBeat(f, e) ==
    f.lastBeat # None /\ f.lastBeat - duck[e].beat \in BackFrom..(BackTo - 1)

\* A counter that has stepped back is a new performance; one that has gone
\* back too little, or too far, is not told from a beat that was missed.
Restarted(f, e) ==
    \/ duck[e].piece # f.piece
    \/ f.lastBeat # None /\ f.lastBeat - duck[e].beat \in BackFrom..(BackTo - 1)

Observes(f, e) ==
    [f EXCEPT
       !.leader = e, !.roster = duck[e].roster, !.lastBeat = duck[e].beat,
       !.observed = IF f.lastBeat = duck[e].beat \/ @ = LockAt THEN @ ELSE @ + 1]

\* The first singing beacon names the leader, and nobody else's counts.
Followed(d, e) ==
    LET f == duck[d]
        piece == duck[e].piece
    IN  IF ~Restarted(f, e) THEN Observes(f, e)
        ELSE IF piece \in Knows[d] THEN Observes(Joining(piece), e)
        ELSE Listening

Follows(d, e) ==
    Is(d, "following") /\ duck[d].leader \in {None, e} /\ Is(e, "conducting")

Hear(d, e) ==
    /\ d # e /\ Active(d) /\ Active(e)
    /\ peers' = [peers EXCEPT ![d][e] = PieceOnAir(e)]
    /\ duck' = IF Follows(d, e) THEN [duck EXCEPT ![d] = Followed(d, e)]
                                ELSE duck
    /\ UNCHANGED listened
    /\ Aired({<<d, e>>})

\* A record nobody renewed for three seconds goes.
GoesStale(d, e) ==
    /\ e \in Peers(d)
    /\ Prompt => ~Active(e)
    /\ peers' = [peers EXCEPT ![d][e] = Unheard]
    /\ UNCHANGED <<duck, listened>> /\ Aired({})

-----------------------------------------------------------------------------
(* tick.                                                                   *)

Join(d) ==
    /\ Is(d, "listening")
    /\ \E e \in Joinable(d) : Becomes(d, Joining(peers[d][e]))
    /\ UNCHANGED peers /\ Aired({})

\* The newcomers take the seats that are left, in some order.
Seated(r, new) ==
    LET n == Min({MaxRoster - Len(r), Cardinality(new)}) IN
      {r \o s : s \in Injection(1..n, new)}

\* Mutant: a duck that hears another conducts at once.
MayConductUnsettled(d) ==
    /\ Is(d, "listening") /\ Joinable(d) = {}
    /\ Peers(d) # {} /\ \A e \in Peers(d) : d < e

MayConduct(d) ==
    /\ Is(d, "listening") /\ Joinable(d) = {}
    /\ Peers(d) # {} /\ \A e \in Peers(d) : d < e
    /\ listened[d] = Settle

Conduct(d) ==
    /\ MayConduct(d)
    /\ \E p \in Knows[d], r \in Seated(<<d>>, Peers(d)) :
         Becomes(d, Conducting(p, r))
    /\ UNCHANGED peers /\ Aired({})

Newcomers(d) ==
    IF Len(duck[d].roster) < MaxRoster THEN Peers(d) \ Range(duck[d].roster)
                                       ELSE {}

SeatNew(d) ==
    /\ Is(d, "conducting") /\ duck[d].beat <= LastBeat
    /\ Newcomers(d) # {}
    /\ \E r \in Seated(duck[d].roster, Newcomers(d)) :
         duck' = [duck EXCEPT ![d].roster = r]
    /\ UNCHANGED <<peers, listened>> /\ Aired({})

PerformanceEnds(d) ==
    /\ Is(d, "conducting") /\ duck[d].beat > LastBeat
    /\ Becomes(d, Listening)
    /\ UNCHANGED peers /\ Aired({})

Locked(f) == f.state = "following" /\ f.observed = LockAt

\* Mutant: the end of the piece is not looked for.
FollowerNeverEnds(d) == FALSE

\* A follower counts on to a few beats after the end, and by then has heard
\* that a leader still on the air has fallen silent.
FollowerEnds(d) ==
    /\ Locked(duck[d])
    /\ LET e == duck[d].leader IN
         Prompt /\ Active(e) /\ ~Is(e, "conducting") => peers[d][e] = Idle
    /\ Becomes(d, Listening)
    /\ UNCHANGED peers /\ Aired({})

-----------------------------------------------------------------------------
(* A unit passes, and in it a conductor's beat turns over at most once.    *)

TickDue(d) ==
    \/ Is(d, "listening") /\ (Joinable(d) # {} \/ MayConduct(d))
    \/ Is(d, "conducting") /\ (Newcomers(d) # {} \/ duck[d].beat > LastBeat)

UnitPasses(turned) ==
    /\ \A d \in turned : Is(d, "conducting") /\ duck[d].beat <= LastBeat
    /\ Prompt => \A d \in Ducks : unheard[d] = {} /\ ~TickDue(d)
    /\ duck' = [d \in Ducks |-> IF d \in turned
                  THEN [duck[d] EXCEPT !.beat = @ + 1] ELSE duck[d]]
    /\ listened' = [d \in Ducks |->
         IF Is(d, "listening") /\ listened[d] < Settle
           THEN listened[d] + 1 ELSE listened[d]]
    /\ unheard' = [d \in Ducks |-> unheard[d] \cup
         {e \in Ducks \ {d} : Active(d) /\ OnAir(e)' # OnAir(e)}]
    /\ UNCHANGED peers

Tick(d) == Join(d) \/ Conduct(d) \/ SeatNew(d) \/ PerformanceEnds(d)
              \/ FollowerEnds(d)

Next ==
    \/ \E d \in Ducks : Activate(d) \/ Deactivate(d) \/ Tick(d)
    \/ \E d, e \in Ducks : Hear(d, e) \/ GoesStale(d, e)
    \/ \E turned \in SUBSET Ducks : UnitPasses(turned)

Spec == Init /\ [][Next]_vars

\* The loop ticks, what is on the air is heard, a follower's count runs out,
\* and time and a conductor's beat go on.
Fairness ==
    /\ WF_vars(\E d \in Ducks : \E e \in unheard[d] : Hear(d, e))
    /\ WF_vars(\E d \in Ducks : TickDue(d) /\ Tick(d))
    /\ WF_vars(\E d \in Ducks : FollowerEnds(d))
    /\ WF_vars(\E turned \in SUBSET Ducks : UnitPasses(turned))
    /\ WF_vars(\E turned \in (SUBSET Ducks) \ {{}} : UnitPasses(turned))

FairSpec == Spec /\ Fairness

-----------------------------------------------------------------------------
(* Properties.                                                             *)

\* The lines an ensemble of n sings, from the lowest voice to the highest;
\* more ducks than lines double the top one.
Ensemble(n) ==
    CASE n = 1 -> <<"soprano">>
      [] n = 2 -> <<"bass", "soprano">>
      [] n = 3 -> <<"bass", "alto", "soprano">>
      [] OTHER -> <<"bass", "tenor", "alto", "soprano">>

\* By register, and by seat between equals.
Line(roster, seat) ==
    LET below == {i \in DOMAIN roster :
                    \/ Register[roster[i]] < Register[roster[seat]]
                    \/ Register[roster[i]] = Register[roster[seat]] /\ i < seat}
        rank == Cardinality(below) + 1
        lines == Ensemble(Len(roster))
    IN  IF rank <= Len(lines) THEN lines[rank] ELSE "soprano"

Sings(d) == Is(d, "conducting") \/ Locked(duck[d])
Leader(d) == IF Is(d, "conducting") THEN d ELSE duck[d].leader

\* Two ducks that hear each other never both hold the beat: they listen long
\* enough "that they have both certainly heard the other" (SETTLE).
OneConductor ==
    \A d, e \in Ducks : Is(d, "conducting") /\ Is(e, "conducting") => d = e

\* Two ducks that sing and have heard what their conductor has on the air sing
\* the same piece, and each a line of its own while there are lines to go
\* round (seat_all, replayed by everyone over the conductor's roster).
OwnLine ==
    \A d, e \in Ducks : \A i \in DOMAIN duck[d].roster, j \in DOMAIN duck[e].roster :
        /\ d # e /\ Sings(d) /\ Sings(e) /\ Leader(d) = Leader(e)
        /\ Is(Leader(d), "conducting")
        /\ Leader(d) \notin unheard[d] \cup unheard[e]
        /\ duck[d].roster[i] = d /\ duck[e].roster[j] = e
        => /\ duck[d].piece = duck[e].piece
           /\ Len(duck[d].roster) <= 4 =>
                Line(duck[d].roster, i) # Line(duck[e].roster, j)

\* A follower that heard too few beats before its leader fell silent waits for
\* a beat for as long as nobody else sings: nothing else takes it out.
Stranded(d) ==
    /\ Is(d, "following") /\ ~Locked(duck[d])
    /\ duck[d].leader # None => ~Is(duck[d].leader, "conducting")

\* Ducks that stay on go on singing: whoever conducts ends, and somebody
\* conducts again, unless a follower is stranded for ever.
EnsembleSings ==
    <>[](\A d \in Ducks : Active(d)) /\ (\A d \in Ducks : []<>~Stranded(d))
        => []<>(\E d \in Ducks : Is(d, "conducting"))
=============================================================================

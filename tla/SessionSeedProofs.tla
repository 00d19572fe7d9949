--------------------------- MODULE SessionSeedProofs --------------------------
(***************************************************************************)
(* SessionSeed for any radios, channels, seeds and session numbers: who    *)
(* heard the announcement hops with the talker, and who heard END reported *)
(* it once.                                                                *)
(*                                                                         *)
(* Both rest on what the two filters of on_service_data stand for.  While  *)
(* a session lasts, a listener whose last announcement has the session's   *)
(* number took it from this talker, and one whose last END has the         *)
(* session's number heard this END, unless the number was known before     *)
(* (taken): Listening and Ending say so, and Numbered that no filter is    *)
(* mistaken for an empty one.                                              *)
(*                                                                         *)
(* EveryoneMeets rests on the shuffle alone, which is defined by recursion *)
(* from n down: its steps are handed down one by one (Downwards), each an  *)
(* exchange that leaves the rendezvous channel in its place.               *)
(***************************************************************************)
EXTENDS SessionSeed, WellFoundedInduction, TLAPS

\* Between sessions nothing of the last one is left in the histories.
Silent ==
  talker = None =>
    ~ending /\ \A l \in Radios : ~told[l] /\ ~heardEnd[l] /\ reports[l] = 0

\* A session has a number, so that no filter matches it after a restart.
Numbered == talker # None => number[talker] # 0

\* have_derived_public_seed: the seed it stands for is the one that hops.
DerivedHops == \A l \in Radios : derived[l] # None => hops[l] = derived[l]

Listening ==
  talker # None =>
    \A l \in Radios \ { talker } :
      /\ told[l] => announced[l] = number[talker] /\ ~heardEnd[l]
      /\ announced[l] = number[talker] /\ ~heardEnd[l]
           => taken[l] \/ hops[l] = own[talker]

Ending ==
  talker # None =>
    \A l \in Radios \ { talker } :
      /\ heardEnd[l] => /\ ending /\ ended[l] = << number[talker], spoken >>
                        /\ reports[l] \in { 0, 1 } /\ (taken[l] \/ reports[l] = 1)
      /\ ~heardEnd[l] => reports[l] = 0 /\ (ended[l][1] = number[talker] => taken[l])

Inv == TypeOK /\ Silent /\ Numbered /\ DerivedHops /\ Listening /\ Ending

\* A started group satisfies it.
LEMMA InitInv == Init => Inv
<1> SUFFICES ASSUME Init PROVE Inv
  OBVIOUS
<1>1. 0 \in 0..Channels - 1 /\ 0 \in 0..MaxSession /\ 0 \in 0..2
  BY ChannelsAssumption, SessionAssumption
<1>2. TypeOK
  BY <1>1, SeedsAssumption DEF Init, TypeOK, No, NoEnd
<1>3. Silent /\ Numbered /\ DerivedHops /\ Listening /\ Ending
  BY DEF Init, Silent, Numbered, DerivedHops, Listening, Ending, No
<1> QED BY <1>2, <1>3 DEF Inv

\* reset_controller leaves a radio with its own seed and no derived one.
LEMMA RebuiltSteps ==
  ASSUME TypeOK, DerivedHops, NEW rs, Rebuilt(rs), own' \in [Radios -> Seeds]
  PROVE  /\ hops' \in [Radios -> Seeds] /\ derived' \in [Radios -> Seeds \cup { None }]
         /\ DerivedHops'
         /\ \A l \in Radios : l \notin rs => hops'[l] = hops[l]
<1>1. /\ hops' = [r \in Radios |-> IF r \in rs THEN own'[r] ELSE hops[r]]
      /\ derived' = [r \in Radios |-> IF r \in rs THEN None ELSE derived[r]]
  BY DEF Rebuilt
<1>2. hops \in [Radios -> Seeds] /\ derived \in [Radios -> Seeds \cup { None }]
  BY DEF TypeOK
<1>3. \A l \in Radios : /\ hops'[l] = IF l \in rs THEN own'[l] ELSE hops[l]
                        /\ derived'[l] = IF l \in rs THEN None ELSE derived[l]
  BY <1>1
<1> QED BY <1>1, <1>2, <1>3 DEF DerivedHops

\* fhss_service_apply_public_seed: those it is applied to hop by the seed.
LEMMA AppliedSteps ==
  ASSUME TypeOK, DerivedHops, NEW rs, NEW seed \in Seeds, Applied(rs, seed)
  PROVE  /\ hops' \in [Radios -> Seeds] /\ derived' \in [Radios -> Seeds \cup { None }]
         /\ DerivedHops'
         /\ \A l \in Radios : hops'[l] = IF l \in rs THEN seed ELSE hops[l]
<1>1. /\ hops' = [r \in Radios |-> IF r \in rs /\ derived[r] # seed THEN seed ELSE hops[r]]
      /\ derived' = [r \in Radios |-> IF r \in rs THEN seed ELSE derived[r]]
  BY DEF Applied
<1>2. /\ hops \in [Radios -> Seeds] /\ derived \in [Radios -> Seeds \cup { None }]
      /\ seed # None
  BY NoneAssumption DEF TypeOK
<1>3. \A l \in Radios :
        /\ hops'[l] = IF l \in rs /\ derived[l] # seed THEN seed ELSE hops[l]
        /\ derived'[l] = IF l \in rs THEN seed ELSE derived[l]
  BY <1>1
<1>4. \A l \in Radios : hops'[l] = IF l \in rs THEN seed ELSE hops[l]
  BY <1>2, <1>3 DEF DerivedHops
<1>5. DerivedHops'
  BY <1>3, <1>4 DEF DerivedHops
<1> QED BY <1>1, <1>2, <1>4, <1>5

\* fhss_audio_adapter_begin_tx: a number some listener has taken before is marked so.
LEMMA BeginSteps ==
  ASSUME Inv, NEW r \in Radios, Begin(r)
  PROVE  Inv'
<1>1. PICK seed \in Seeds : own' = [own EXCEPT ![r] = seed]
  BY DEF Begin
<1>2. /\ talker = None /\ talker' = r /\ r # None
      /\ number' = [number EXCEPT ![r] = IF @ = MaxSession THEN 1 ELSE @ + 1]
      /\ Rebuilt({ r })
      /\ phase' = [l \in Radios |-> IF l # r /\ phase[l] # "search" THEN "adrift" ELSE "search"]
      /\ taken' = [l \in Radios |-> number'[r] \in { announced[l], ended[l][1] }]
      /\ UNCHANGED << slot, ending, spoken, announced, ended, told, reports, heardEnd >>
  BY NoneAssumption DEF Begin, filters
<1>3. own' \in [Radios -> Seeds]
  BY <1>1 DEF Inv, TypeOK
<1>4. number' \in [Radios -> 0..MaxSession] /\ number'[r] # 0
  <2>1. number \in [Radios -> 0..MaxSession] /\ MaxSession \in Nat \ {0}
    BY SessionAssumption DEF Inv, TypeOK
  <2>2. number'[r] = IF number[r] = MaxSession THEN 1 ELSE number[r] + 1
    BY <1>2, <2>1
  <2>3. number'[r] \in 1..MaxSession
    BY <2>1, <2>2
  <2> QED BY <1>2, <2>1, <2>3
<1>5. /\ hops' \in [Radios -> Seeds] /\ derived' \in [Radios -> Seeds \cup { None }]
      /\ DerivedHops'
  BY <1>2, <1>3, RebuiltSteps DEF Inv
<1>6. \A l \in Radios : taken'[l] <=> number'[r] \in { announced[l], ended[l][1] }
  BY <1>2
<1>7. TypeOK'
  <2>1. phase' \in [Radios -> { "search", "follow", "adrift" }]
    BY <1>2
  <2>2. taken' \in [Radios -> BOOLEAN]
    BY <1>2
  <2> QED BY <1>2, <1>3, <1>4, <1>5, <2>1, <2>2 DEF Inv, TypeOK
<1>8. Silent' /\ Numbered'
  BY <1>2, <1>4 DEF Silent, Numbered
<1>9. \A l \in Radios : ~told'[l] /\ ~heardEnd'[l] /\ reports'[l] = 0
  BY <1>2 DEF Inv, Silent
<1>10. Listening'
  BY <1>2, <1>6, <1>9 DEF Listening
<1>11. Ending'
  BY <1>2, <1>6, <1>9 DEF Ending
<1> QED BY <1>5, <1>7, <1>8, <1>10, <1>11 DEF Inv

\* A copy of the announcement (on_service_data): whoever has its number already took
\* it in this session or is marked.
LEMMA AnnounceSteps ==
  ASSUME Inv, Announce
  PROVE  Inv'
<1>1. PICK heard \in SUBSET Audience :
        LET news == { l \in heard : IsNews(l) }
        IN  /\ announced' = [l \in Radios |->
                               IF l \in news THEN number[talker] ELSE announced[l]]
            /\ Applied(news, own[talker])
            /\ told' = [l \in Radios |-> told[l] \/ l \in heard]
  BY DEF Announce
<1> DEFINE news == { l \in heard : IsNews(l) }
<1>2. /\ talker # None /\ ~ending
      /\ UNCHANGED << talker, slot, ending, spoken, number, own, phase, ended, reports, heardEnd,
                      taken >>
  BY DEF Announce, onAir
<1>3. talker \in Radios /\ own[talker] \in Seeds /\ number[talker] \in 0..MaxSession
  BY <1>2 DEF Inv, TypeOK
<1>4. /\ hops' \in [Radios -> Seeds] /\ derived' \in [Radios -> Seeds \cup { None }]
      /\ DerivedHops'
      /\ \A l \in Radios : hops'[l] = IF l \in news THEN own[talker] ELSE hops[l]
  BY <1>1, <1>3, AppliedSteps DEF Inv
<1>5. \A l \in Radios : /\ announced'[l] = IF l \in news THEN number[talker] ELSE announced[l]
                        /\ told'[l] <=> told[l] \/ l \in heard
                        /\ l \in heard => (l \in news <=> announced[l] # number[talker])
                        /\ l \in news => l \in heard
  BY <1>1 DEF IsNews
<1>6. TypeOK'
  <2>1. announced' \in [Radios -> 0..MaxSession]
    BY <1>1, <1>3 DEF Inv, TypeOK
  <2>2. told' \in [Radios -> BOOLEAN]
    BY <1>1 DEF Inv, TypeOK
  <2> QED BY <1>2, <1>4, <2>1, <2>2 DEF Inv, TypeOK
<1>7. Silent' /\ Numbered' /\ Ending'
  BY <1>2 DEF Inv, Silent, Numbered, Ending
<1>8. Listening'
  <2> SUFFICES ASSUME NEW l \in Radios \ { talker }
               PROVE  /\ told'[l] => announced'[l] = number[talker] /\ ~heardEnd[l]
                      /\ announced'[l] = number[talker] /\ ~heardEnd[l]
                           => taken[l] \/ hops'[l] = own[talker]
    BY <1>2 DEF Listening
  <2>1. ~heardEnd[l]
    BY <1>2 DEF Inv, Ending
  <2>2. /\ told[l] => announced[l] = number[talker]
        /\ announced[l] = number[talker] => taken[l] \/ hops[l] = own[talker]
    BY <1>2, <2>1 DEF Inv, Listening
  <2> HIDE DEF news
  <2> QED BY <1>4, <1>5, <2>1, <2>2
<1> QED BY <1>4, <1>6, <1>7, <1>8 DEF Inv

\* A copy of END (on_service_data, handle_session_end): the first one is reported, and
\* the others find it in the filter.
LEMMA EndSteps ==
  ASSUME Inv, End
  PROVE  Inv'
<1> DEFINE end == << number[talker], spoken >>
<1>1. PICK heard \in SUBSET Audience :
        LET news == { l \in heard : ~Repeats(l, end) }
        IN  /\ ended' = [l \in Radios |-> IF l \in news THEN end ELSE ended[l]]
            /\ reports' = [l \in Radios |->
                  IF l \in news /\ reports[l] < 2 THEN reports[l] + 1 ELSE reports[l]]
            /\ Rebuilt(heard)
            /\ told' = [l \in Radios |-> told[l] /\ l \notin heard]
            /\ phase' = [l \in Radios |-> IF l \in heard THEN "search" ELSE phase[l]]
            /\ heardEnd' = [l \in Radios |-> heardEnd[l] \/ l \in heard]
  BY DEF End
<1> DEFINE news == { l \in heard : ~Repeats(l, end) }
<1>2. /\ talker # None /\ ending
      /\ UNCHANGED << talker, slot, ending, spoken, number, own, announced, taken >>
  BY DEF End, onAir
<1>3. /\ talker \in Radios /\ number[talker] \in 0..MaxSession /\ spoken \in BOOLEAN
      /\ own' \in [Radios -> Seeds]
      /\ \A l \in Radios : reports[l] \in 0..2
  BY <1>2 DEF Inv, TypeOK
<1>4. /\ hops' \in [Radios -> Seeds] /\ derived' \in [Radios -> Seeds \cup { None }]
      /\ DerivedHops'
      /\ \A l \in Radios : l \notin heard => hops'[l] = hops[l]
  BY <1>1, <1>3, RebuiltSteps DEF Inv
<1>5. \A l \in Radios :
        /\ ended'[l] = IF l \in news THEN end ELSE ended[l]
        /\ reports'[l] = IF l \in news /\ reports[l] < 2 THEN reports[l] + 1 ELSE reports[l]
        /\ told'[l] <=> told[l] /\ l \notin heard
        /\ heardEnd'[l] <=> heardEnd[l] \/ l \in heard
        /\ l \in news <=> l \in heard /\ ended[l] # end
  BY <1>1 DEF Repeats
<1>6. TypeOK'
  <2>1. ended' \in [Radios -> (0..MaxSession) \X BOOLEAN]
    BY <1>1, <1>3 DEF Inv, TypeOK
  <2>2. reports' \in [Radios -> 0..2]
    <3>1. \A l \in Radios : reports'[l] \in 0..2
      <4> HIDE DEF news
      <4> QED BY <1>3, <1>5
    <3> QED BY <1>1, <3>1
  <2>3. told' \in [Radios -> BOOLEAN] /\ heardEnd' \in [Radios -> BOOLEAN]
    BY <1>1 DEF Inv, TypeOK
  <2>4. phase' \in [Radios -> { "search", "follow", "adrift" }]
    BY <1>1 DEF Inv, TypeOK
  <2> QED BY <1>2, <1>3, <1>4, <2>1, <2>2, <2>3, <2>4 DEF Inv, TypeOK
<1>7. Silent' /\ Numbered'
  BY <1>2 DEF Inv, Silent, Numbered
<1>8. Listening'
  <2> SUFFICES ASSUME NEW l \in Radios \ { talker }
               PROVE  /\ told'[l] => announced[l] = number[talker] /\ ~heardEnd'[l]
                      /\ announced[l] = number[talker] /\ ~heardEnd'[l]
                           => taken[l] \/ hops'[l] = own[talker]
    BY <1>2 DEF Listening
  <2> HIDE DEF news, end
  <2> QED BY <1>2, <1>4, <1>5 DEF Inv, Listening
<1>9. Ending'
  <2> SUFFICES ASSUME NEW l \in Radios \ { talker }
               PROVE  /\ heardEnd'[l] => /\ ended'[l] = end /\ reports'[l] \in { 0, 1 }
                                         /\ (taken[l] \/ reports'[l] = 1)
                      /\ ~heardEnd'[l] =>
                           /\ reports'[l] = 0
                           /\ (ended'[l][1] = number[talker] => taken[l])
    BY <1>2 DEF Ending
  <2>1. /\ heardEnd[l] => /\ ended[l] = end /\ reports[l] \in { 0, 1 }
                          /\ (taken[l] \/ reports[l] = 1)
        /\ ~heardEnd[l] => reports[l] = 0 /\ (ended[l][1] = number[talker] => taken[l])
    BY <1>2 DEF Inv, Ending
  <2>2. end[1] = number[talker]
    OBVIOUS
  <2>3. /\ ended'[l] = IF l \in news THEN end ELSE ended[l]
        /\ reports'[l] = IF l \in news /\ reports[l] < 2 THEN reports[l] + 1 ELSE reports[l]
        /\ heardEnd'[l] <=> heardEnd[l] \/ l \in heard
        /\ l \in news <=> l \in heard /\ ended[l] # end
    BY <1>5
  <2> HIDE DEF news, end
  <2>4. CASE l \notin heard
    BY <2>1, <2>3, <2>4
  <2>5. CASE heardEnd[l]
    BY <2>1, <2>3, <2>5
  <2>6. CASE l \in heard /\ ~heardEnd[l]
    <3>1. CASE l \in news
      BY <2>1, <2>3, <2>6, <3>1
    <3>2. CASE l \notin news
      BY <2>1, <2>2, <2>3, <2>6, <3>2
    <3> QED BY <3>1, <3>2
  <2> QED BY <2>4, <2>5, <2>6
<1> QED BY <1>4, <1>6, <1>7, <1>8, <1>9 DEF Inv

\* The way back to reception ends the session for everybody.
LEMMA LeaveSteps ==
  ASSUME Inv, Leave
  PROVE  Inv'
<1>1. /\ talker' = None /\ slot' = 0 /\ ending' = FALSE /\ spoken' = FALSE
      /\ told' = No /\ reports' = [r \in Radios |-> 0] /\ heardEnd' = No /\ taken' = No
      /\ Rebuilt({ talker })
      /\ UNCHANGED << number, own, phase, announced, ended >>
  BY DEF Leave, filters
<1>2. own' \in [Radios -> Seeds]
  BY <1>1 DEF Inv, TypeOK
<1>3. /\ hops' \in [Radios -> Seeds] /\ derived' \in [Radios -> Seeds \cup { None }]
      /\ DerivedHops'
  BY <1>1, <1>2, RebuiltSteps DEF Inv
<1>4. No \in [Radios -> BOOLEAN] /\ reports' \in [Radios -> 0..2] /\ 0 \in 0..Channels - 1
  BY <1>1, ChannelsAssumption DEF No
<1>5. TypeOK'
  BY <1>1, <1>2, <1>3, <1>4 DEF Inv, TypeOK
<1>6. Silent' /\ Numbered' /\ Listening' /\ Ending'
  BY <1>1 DEF Silent, Numbered, Listening, Ending, No
<1> QED BY <1>3, <1>5, <1>6 DEF Inv

\* A listener that restarts knows of no number.
LEMMA RebootSteps ==
  ASSUME Inv, NEW r \in Radios, Reboot(r)
  PROVE  Inv'
<1>1. /\ talker # r
      /\ number' = [number EXCEPT ![r] = 0]
      /\ own' = [own EXCEPT ![r] = BootSeed]
      /\ Rebuilt({ r })
      /\ phase' = [phase EXCEPT ![r] = "search"]
      /\ announced' = [announced EXCEPT ![r] = 0]
      /\ ended' = [ended EXCEPT ![r] = NoEnd]
      /\ told' = [told EXCEPT ![r] = FALSE]
      /\ reports' = [reports EXCEPT ![r] = 0]
      /\ heardEnd' = [heardEnd EXCEPT ![r] = FALSE]
      /\ taken' = [taken EXCEPT ![r] = FALSE]
      /\ UNCHANGED << talker, slot, ending, spoken >>
  BY DEF Reboot, onAir
<1>2. own' \in [Radios -> Seeds]
  BY <1>1, SeedsAssumption DEF Inv, TypeOK
<1>3. /\ hops' \in [Radios -> Seeds] /\ derived' \in [Radios -> Seeds \cup { None }]
      /\ DerivedHops'
      /\ \A l \in Radios : l # r => hops'[l] = hops[l]
  BY <1>1, <1>2, RebuiltSteps DEF Inv
<1>4. TypeOK'
  <2>1. 0 \in 0..MaxSession /\ NoEnd \in (0..MaxSession) \X BOOLEAN
    <3>1. 0 \in 0..MaxSession /\ FALSE \in BOOLEAN
      BY SessionAssumption
    <3> QED BY <3>1 DEF NoEnd
  <2>2. number' \in [Radios -> 0..MaxSession] /\ announced' \in [Radios -> 0..MaxSession]
    BY <1>1, <2>1 DEF Inv, TypeOK
  <2>3. ended' \in [Radios -> (0..MaxSession) \X BOOLEAN]
    BY <1>1, <2>1 DEF Inv, TypeOK
  <2>4. /\ told' \in [Radios -> BOOLEAN] /\ heardEnd' \in [Radios -> BOOLEAN]
        /\ taken' \in [Radios -> BOOLEAN] /\ reports' \in [Radios -> 0..2]
    BY <1>1 DEF Inv, TypeOK
  <2>5. phase' \in [Radios -> { "search", "follow", "adrift" }]
    BY <1>1 DEF Inv, TypeOK
  <2> QED BY <1>1, <1>2, <1>3, <2>2, <2>3, <2>4, <2>5 DEF Inv, TypeOK
<1>5. /\ ~told'[r] /\ ~heardEnd'[r] /\ reports'[r] = 0 /\ announced'[r] = 0 /\ ended'[r][1] = 0
      /\ \A l \in Radios : l # r =>
           /\ told'[l] = told[l] /\ heardEnd'[l] = heardEnd[l] /\ reports'[l] = reports[l]
           /\ announced'[l] = announced[l] /\ ended'[l] = ended[l] /\ taken'[l] = taken[l]
           /\ number'[l] = number[l] /\ own'[l] = own[l]
  BY <1>1 DEF Inv, TypeOK, NoEnd
<1>6. Silent'
  BY <1>1, <1>5 DEF Inv, Silent
<1>7. talker # None => /\ talker \in Radios /\ talker' = talker /\ number'[talker] = number[talker]
                       /\ own'[talker] = own[talker] /\ number[talker] # 0
  BY <1>1, <1>5 DEF Inv, TypeOK, Numbered
<1>8. Numbered'
  BY <1>1, <1>7 DEF Numbered
<1>9. Listening'
  BY <1>1, <1>3, <1>5, <1>7 DEF Inv, Listening
<1>10. Ending'
  BY <1>1, <1>5, <1>7 DEF Inv, Ending
<1> QED BY <1>3, <1>4, <1>6, <1>8, <1>9, <1>10 DEF Inv

\* The other steps move the slot, begin the END or change what a listener follows.
LEMMA OtherSteps ==
  ASSUME Inv,
         NextSlot \/ Release \/ (\E l \in Radios : Sync(l) \/ LoseSync(l)) \/ UNCHANGED vars
  PROVE  Inv'
<1>1. /\ UNCHANGED << talker, number, own, hops, derived, announced, ended, told, reports,
                      heardEnd, taken >>
      /\ ending => ending' /\ spoken' = spoken
      /\ talker = None => ending' = ending
  BY DEF NextSlot, Release, Sync, LoseSync, vars, onAir, controller, filters, history
<1>2. slot' \in 0..Channels - 1
  BY ChannelsAssumption
     DEF NextSlot, Release, Sync, LoseSync, vars, onAir, Inv, TypeOK
<1>3. ending' \in BOOLEAN /\ spoken' \in BOOLEAN
  <2>1. \/ ending' = ending /\ spoken' = spoken
        \/ ending' = TRUE /\ spoken' \in BOOLEAN
    BY Zenon DEF NextSlot, Release, Sync, LoseSync, vars, onAir
  <2>2. ending \in BOOLEAN /\ spoken \in BOOLEAN
    BY DEF Inv, TypeOK
  <2> QED BY <2>1, <2>2, Zenon
<1>4. phase' \in [Radios -> { "search", "follow", "adrift" }]
  BY DEF NextSlot, Release, Sync, LoseSync, vars, onAir, controller, Inv, TypeOK
<1>5. TypeOK'
  BY <1>1, <1>2, <1>3, <1>4 DEF Inv, TypeOK
<1>6. Silent' /\ Numbered' /\ DerivedHops' /\ Listening'
  BY <1>1 DEF Inv, Silent, Numbered, DerivedHops, Listening
<1>7. Ending'
  BY <1>1 DEF Inv, Ending
<1> QED BY <1>5, <1>6, <1>7 DEF Inv

----------------------------------------------------------------------------
(* The shuffle. *)

\* Every set of naturals that has an element has a least one.
LEMMA LeastNumber ==
  ASSUME NEW S \in SUBSET Nat, S # {}
  PROVE  \E m \in S : \A k \in S : m <= k
<1> DEFINE R == { pair \in Nat \X Nat : pair[1] < pair[2] }
<1>1. IsWellFoundedOn(R, Nat)
  BY NatLessThanWellFounded DEF OpToRel
<1>2. \A k, m \in Nat : k < m => << k, m >> \in R
  OBVIOUS
<1> HIDE DEF R
<1>3. PICK m \in S : \A k \in S : << k, m >> \notin R
  BY <1>1, WFMin
<1>4. \A k \in S : ~(k < m)
  BY <1>2, <1>3
<1> QED
  BY <1>3, <1>4

\* What holds at n and is handed down from every step to the next holds at all of them.
LEMMA Downwards ==
  ASSUME NEW n \in Nat, NEW S, n \in S, \A k \in 3..n : k \in S => k - 1 \in S
  PROVE  2..n \subseteq S
<1> SUFFICES ASSUME NEW k \in 2..n, k \notin S PROVE FALSE
  OBVIOUS
<1> DEFINE Left == { m \in Nat : n - m \in 2..n /\ n - m \notin S }
<1>1. n - k \in Left
  OBVIOUS
<1>2. PICK m \in Left : \A l \in Left : m <= l
  BY <1>1, LeastNumber
<1>3. m # 0 /\ m \in Nat /\ n - m \in 2..n /\ n - m \notin S
  OBVIOUS
<1>4. m - 1 \in Nat /\ n - (m - 1) = (n - m) + 1 /\ (n - m) + 1 \in 3..n
  BY <1>3
<1>5. (n - m) + 1 \notin S
  <2>1. ((n - m) + 1) - 1 = n - m
    BY <1>3
  <2> QED
    BY <1>3, <1>4, <2>1
<1>6. m - 1 \in Left
  BY <1>4, <1>5
<1> QED
  BY <1>2, <1>3, <1>6

\* The orders that leave the rendezvous channel in its place.
Identity(n) == [position \in 0..n - 1 |-> position]
Orders(n) ==
  { order \in [0..n - 1 -> 0..n - 1] :
      order[0] = 0 /\ \A j \in 0..n - 1 : \E i \in 0..n - 1 : order[i] = j }

\* The steps n down to k of the shuffle, as a function of the step.
Shuffled(n, seed, k, after) ==
  after = [i \in k..n |->
             IF i = n THEN Identity(n)
             ELSE Exchange(after[i + 1], i, Selected(i + 1, seed[i + 1]))]

\* There is such a function: the recursion of Permutation defines one.
LEMMA ShuffleExists ==
  ASSUME NEW n \in Nat, n > 1, NEW seed
  PROVE  \E after : Shuffled(n, seed, 2, after)
<1> DEFINE S == { k \in 2..n : \E after : Shuffled(n, seed, k, after) }
<1>1. n \in S
  <2> DEFINE g == [i \in n..n |-> Identity(n)]
  <2>1. Shuffled(n, seed, n, g)
    BY DEF Shuffled
  <2> QED
    BY <2>1
<1>2. ASSUME NEW k \in 3..n, k \in S
      PROVE  k - 1 \in S
  <2>1. PICK g : Shuffled(n, seed, k, g)
    BY <1>2
  <2> DEFINE last == Exchange(g[k], k - 1, Selected(k, seed[k]))
             h == [i \in k - 1..n |-> IF i = k - 1 THEN last ELSE g[i]]
  <2> HIDE DEF last
  <2>2. \A i \in k..n : h[i] = g[i] /\ i \in k - 1..n
    OBVIOUS
  <2>3. \A i \in k..n : g[i] = IF i = n THEN Identity(n)
                               ELSE Exchange(g[i + 1], i, Selected(i + 1, seed[i + 1]))
    BY <2>1 DEF Shuffled
  <2>4. h[k - 1] = Exchange(h[k], k - 1, Selected(k, seed[k])) /\ k - 1 # n /\ (k - 1) + 1 = k
    BY <2>2 DEF last
  <2>5. ASSUME NEW i \in k - 1..n
        PROVE  h[i] = IF i = n THEN Identity(n)
                      ELSE Exchange(h[i + 1], i, Selected(i + 1, seed[i + 1]))
    <3>1. CASE i = k - 1
      BY <2>4, <3>1
    <3>2. CASE i \in k..n
      <4>1. i # n => i + 1 \in k..n
        BY <3>2
      <4> HIDE DEF h
      <4> QED
        BY <2>2, <2>3, <3>2, <4>1
    <3> QED
      BY <3>1, <3>2
  <2>6. Shuffled(n, seed, k - 1, h)
    <3>1. h = [i \in k - 1..n |-> h[i]]
      OBVIOUS
    <3> HIDE DEF h
    <3> QED
      BY <2>5, <3>1 DEF Shuffled
  <2> QED
    BY <2>6
<1> HIDE DEF S
<1>3. 2..n \subseteq S
  BY <1>1, <1>2, Downwards
<1> QED
  BY <1>3 DEF S

\* The step of the shuffle exchanges two entries, and neither is the rendezvous channel's.
LEMMA ExchangeKeepsOrders ==
  ASSUME NEW n \in Nat, NEW order \in Orders(n), NEW a \in 1..n - 1, NEW b \in 1..n - 1
  PROVE  Exchange(order, a, b) \in Orders(n)
<1> DEFINE next == Exchange(order, a, b)
<1>1. order \in [0..n - 1 -> 0..n - 1] /\ order[0] = 0
  BY DEF Orders
<1>2. a \in 0..n - 1 /\ b \in 0..n - 1 /\ 0 \in 0..n - 1 /\ a # 0 /\ b # 0
  OBVIOUS
<1>3. /\ next \in [0..n - 1 -> 0..n - 1]
      /\ \A i \in 0..n - 1 : next[i] = IF i = b THEN order[a]
                                       ELSE IF i = a THEN order[b] ELSE order[i]
  BY <1>1, <1>2 DEF Exchange
<1>4. next[0] = 0
  BY <1>1, <1>2, <1>3
<1>5. ASSUME NEW j \in 0..n - 1
      PROVE  \E i \in 0..n - 1 : next[i] = j
  <2>1. PICK i \in 0..n - 1 : order[i] = j
    BY DEF Orders
  <2>2. CASE i = a
    BY <1>2, <1>3, <2>1, <2>2
  <2>3. CASE i = b
    BY <1>2, <1>3, <2>1, <2>3
  <2>4. CASE i # a /\ i # b
    BY <1>3, <2>1, <2>4
  <2> QED
    BY <2>2, <2>3, <2>4
<1> QED
  BY <1>3, <1>4, <1>5 DEF Orders

\* 1 + (drawn % i) names one of the i entries after the first.
LEMMA SelectedRange ==
  ASSUME NEW i \in Nat, i > 0, NEW drawn \in Nat
  PROVE  Selected(i + 1, drawn) \in 1..i
<1>1. drawn % i \in 0..i - 1
  OBVIOUS
<1> QED
  BY <1>1 DEF Selected

\* Whatever is drawn, the shuffle of any number of channels is an order of all of them
\* that begins with the rendezvous channel (initialize_sequence).
THEOREM ShuffleOrders ==
  \A n \in Nat \ { 0, 1 } : \A seed \in [Steps(n) -> Nat] : Permutation(n, seed) \in Orders(n)
<1> SUFFICES ASSUME NEW n \in Nat \ { 0, 1 }, NEW seed \in [Steps(n) -> Nat]
             PROVE  Permutation(n, seed) \in Orders(n)
  OBVIOUS
<1> DEFINE after == CHOOSE f : Shuffled(n, seed, 2, f)
<1>1. Permutation(n, seed) = after[2]
  BY DEF Permutation, Shuffled, Identity
<1>2. Shuffled(n, seed, 2, after)
  BY ShuffleExists
<1> HIDE DEF after
<1> DEFINE S == { k \in 2..n : after[k] \in Orders(n) }
<1>3. \A i \in 2..n : after[i] = IF i = n THEN Identity(n)
                                 ELSE Exchange(after[i + 1], i, Selected(i + 1, seed[i + 1]))
  BY <1>2 DEF Shuffled
<1>4. n \in S
  <2>1. Identity(n) \in Orders(n)
    BY DEF Identity, Orders
  <2> QED
    BY <1>3, <2>1
<1>5. ASSUME NEW k \in 3..n, k \in S
      PROVE  k - 1 \in S
  <2>1. k - 1 \in 2..n /\ k - 1 # n /\ (k - 1) + 1 = k /\ k - 1 \in Nat /\ k - 1 > 0
    OBVIOUS
  <2>2. after[k - 1] = Exchange(after[k], k - 1, Selected(k, seed[k]))
    BY <1>3, <2>1
  <2>3. Selected(k, seed[k]) \in 1..k - 1
    <3>1. seed[k] \in Nat
      BY DEF Steps
    <3> QED
      BY <2>1, <3>1, SelectedRange
  <2>4. k - 1 \in 1..n - 1 /\ 1..k - 1 \subseteq 1..n - 1
    OBVIOUS
  <2>5. after[k - 1] \in Orders(n)
    BY <1>5, <2>2, <2>3, <2>4, ExchangeKeepsOrders
  <2> QED
    BY <2>1, <2>5
<1> HIDE DEF S
<1>6. 2 \in S
  BY <1>4, <1>5, Downwards
<1> QED
  BY <1>1, <1>6 DEF S

----------------------------------------------------------------------------
(* The theorems. *)

\* The inductive invariant holds in every reachable state of the group.
THEOREM Invariance == Spec => []Inv
<1>1. Inv /\ [Next]_vars => Inv'
  BY BeginSteps, AnnounceSteps, EndSteps, LeaveSteps, RebootSteps, OtherSteps DEF Next
<1> QED BY InitInv, <1>1, PTL DEF Spec

\* Every variable keeps its type: session numbers stay within their width, and no
\* listener is reported to more often than the history counts.
THEOREM TypeCorrect == Spec => []TypeOK
<1>1. Inv => TypeOK
  BY DEF Inv
<1> QED BY Invariance, <1>1, PTL

\* A listener that heard the announcement hops by the talker's seed until END or a
\* restart, unless it knew the session's number before (on_service_data).
THEOREM SeedSafety == Spec => []HopsWithTheTalker
<1>1. Inv => HopsWithTheTalker
  BY DEF Inv, Listening, HopsWithTheTalker
<1> QED BY Invariance, <1>1, PTL

\* However many copies of END come in, before and after a listener that was sent back
\* to search has found the talker again, the end is reported once (on_service_data).
THEOREM EndSafety == Spec => []EndReportedOnce
<1>1. Inv => EndReportedOnce
  BY DEF Inv, Ending, EndReportedOnce
<1> QED BY Invariance, <1>1, PTL

\* Whatever seed a radio hops by, it visits every channel in a cycle and slot 0 on the
\* channel where everybody waits (initialize_sequence).
THEOREM MeetingSafety == Spec => []EveryoneMeets
<1>1. Inv => EveryoneMeets
  <2> SUFFICES ASSUME Inv, NEW r \in Radios
               PROVE  LET order == Permutation(Channels, hops[r])
                      IN  /\ order[0] = 0
                          /\ { order[i] : i \in 0..Channels - 1 } = 0..Channels - 1
    BY DEF EveryoneMeets
  <2>1. Channels \in Nat \ { 0, 1 } /\ hops[r] \in [Steps(Channels) -> Nat]
    BY ChannelsAssumption, SeedsAssumption DEF Inv, TypeOK
  <2>2. Permutation(Channels, hops[r]) \in Orders(Channels)
    BY <2>1, ShuffleOrders
  <2> QED
    BY <2>2 DEF Orders
<1> QED BY Invariance, <1>1, PTL
=============================================================================

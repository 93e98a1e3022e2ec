--------------------------- MODULE SwitchAllocator ---------------------------
(***************************************************************************)
(* One router of the bufferless network (routing algorithms DEFLECTION_    *)
(* and TDM_) during one cycle: the InputUnits read their links, SA-I picks *)
(* one VC of every input port, permutation_CHIPPER gives every picked flit *)
(* an output port, and SA-II (arbitrate_outports) lets the winners leave.  *)
(*                                                                         *)
(* A non-local input port has no place to keep a flit: whatever arrives in *)
(* a cycle must leave in the same cycle, by its preferred port or by       *)
(* another one (a deflection).  A flit of a Local input port may wait.     *)
(*                                                                         *)
(* permutation_CHIPPER is one action per flit, in the order of its loops,  *)
(* since each flit sees the output ports its predecessors left available   *)
(* and may choose among them at random.                                    *)
(***************************************************************************)
EXTENDS Integers, FiniteSets

CONSTANTS
  InPorts,      \* ids of the input ports
  OutPorts,     \* ids of the output ports
  InDir,        \* PortDirection of each input port
  OutDir,       \* PortDirection of each output port
  NumVCs,       \* m_num_vcs
  MaxId,        \* largest flit id within a packet (4 in the code)
  Tdm,          \* TRUE: TDM_, FALSE: DEFLECTION_
  WaveNum,      \* getWaveNum(): length of the TDM schedule
  WaveTable,    \* m_wave_table: the waves of each non-local output port
  ArrivalWaves  \* waves at which the upstream schedule delivers to a port

VARIABLES
  wave,         \* curWave()
  pc,           \* phase of Router::wakeup
  todo,         \* input ports the current loop has not visited
  top,          \* the flit at the head of every input VC
  rrInvc,       \* m_round_robin_invc
  picked,       \* m_permu_buf: the flit SA-I picked at each input port
  pickedVC,     \* and the VC it is in
  ava,          \* outport_ava: output ports still available
  flag,         \* m_send_allow_flag of each InputUnit
  port,         \* m_output_port of the picked VC after grant_outport
  req,          \* m_port_requests
  sent          \* the input port whose flit each output port releases

vars == <<wave, pc, todo, top, rrInvc, picked, pickedVC, ava, flag, port,
          req, sent>>

Local == "Local"
None  == -1
VCs   == 0 .. NumVCs - 1
Waves == 0 .. WaveNum - 1

LocalIn     == {i \in InPorts : InDir[i] = Local}
NonLocalIn  == InPorts \ LocalIn
LocalOut    == {o \in OutPorts : OutDir[o] = Local}
NonLocalOut == OutPorts \ LocalOut

\* A flit and the output port its VC prefers (m_output_port).
Flit   == [gold : BOOLEAN, id : 0 .. MaxId, prefer : OutPorts]
NoFlit == [gold |-> FALSE, id |-> 0, prefer |-> None]

\* Router::isLinkAvaliable and areLinksAvaliable / fill(outport_ava, true).
isLinkAvaliable(o, w) ==
  OutDir[o] = Local \/ (w + 1) % WaveNum \in WaveTable[o]

\* Mutant: every port is taken for available, as with DEFLECTION_.
Available_all(w) == OutPorts

Available(w) ==
  IF Tdm THEN {o \in OutPorts : isLinkAvaliable(o, w)} ELSE OutPorts

\* Input ports that may be handed a flit by their link at wave w.
MayArrive(w) ==
  IF Tdm THEN {i \in NonLocalIn : w \in ArrivalWaves[i]} ELSE NonLocalIn

-----------------------------------------------------------------------------
(***************************************************************************)
(* Assumptions.  NoOverload is what the topology and the TDM schedule owe  *)
(* to the router: at no wave may more flits arrive than non-local links    *)
(* may leave.  With DEFLECTION_ it says that a router has as many outgoing *)
(* as incoming links.                                                      *)
(***************************************************************************)
ASSUME PortAssumption ==
  /\ InPorts \subseteq Nat /\ IsFiniteSet(InPorts)
  /\ OutPorts \subseteq Nat /\ IsFiniteSet(OutPorts)
  /\ NumVCs \in Nat \ {0}
  /\ MaxId \in Nat
  /\ WaveNum \in Nat \ {0}
  /\ Tdm \in BOOLEAN

\* RoutingUnit::addOutDirection keeps one id per direction: the non-local
\* output ports of a router face different directions.
ASSUME DirectionAssumption ==
  \A o, p \in NonLocalOut : OutDir[o] = OutDir[p] => o = p

\* The assertion of isLinkAvaliable: the topology gives every link a wave.
ASSUME WavesAssumption ==
  Tdm => \A o \in NonLocalOut : WaveTable[o] # {}

ASSUME NoOverload ==
  \A w \in Waves :
    Cardinality(MayArrive(w)) <= Cardinality(Available(w) \cap NonLocalOut)

-----------------------------------------------------------------------------
\* What an InputUnit's link can deliver, with the output port that
\* lookupRoutingTable gives it: any port, as the topology fills the tables and
\* equal weights are chosen from at random.  A flit that enters at a Local port
\* of its destination router has gold_th = 0 = hops: it is gold and prefers a
\* Local output port.  Other Local flits have further to go.
Arrivals(i) ==
  IF i \in LocalIn
  THEN {f \in Flit : f.gold <=> f.prefer \in LocalOut}
  ELSE Flit

\* Mutant: the scan for a VC always starts at VC 0.
FirstFrom_noPointer(r, S) == CHOOSE v \in S : \A u \in S : v <= u

\* The VC the round robin of SA-I reaches first among those of S.
FirstFrom(r, S) ==
  CHOOSE v \in S : \A u \in S : (v - r) % NumVCs <= (u - r) % NumVCs

First(S) == CHOOSE x \in S : \A y \in S : x <= y

Occupied(i) == {v \in VCs : top[i][v] # NoFlit}

uTurn(i) == OutDir[picked[i].prefer] = InDir[i]

\* getANonLocalOutport: any available non-local port of another direction,
\* the port the flit came from if it is the only one left, None otherwise.
Candidates(i) ==
  {o \in ava : OutDir[o] # Local /\ OutDir[o] # InDir[i]}

UTurnPorts(i) ==
  {o \in ava : OutDir[o] # Local /\ OutDir[o] = InDir[i]}

getANonLocalOutport(i) ==
  IF Candidates(i) # {} THEN Candidates(i)
  ELSE IF UTurnPorts(i) # {} THEN UTurnPorts(i)
  ELSE {None}

-----------------------------------------------------------------------------
Init ==
  /\ wave = 0
  /\ pc = "input"
  /\ todo = InPorts
  /\ top = [i \in InPorts |-> [v \in VCs |-> NoFlit]]
  /\ rrInvc = [i \in InPorts |-> 0]
  /\ picked = [i \in InPorts |-> NoFlit]
  /\ pickedVC = [i \in InPorts |-> 0]
  /\ ava = OutPorts
  /\ flag = [i \in InPorts |-> FALSE]
  /\ port = [i \in InPorts |-> None]
  /\ req = {}
  /\ sent = [o \in OutPorts |-> None]

\* InputUnit::wakeup of input port i: nothing is on the link, or a flit goes
\* into an idle VC and its preferred output port is computed.
InputUnitWakeup(i) ==
  /\ pc = "input"
  /\ i \in todo /\ \A j \in todo : i <= j
  /\ todo' = todo \ {i}
  /\ \/ UNCHANGED top
     \/ /\ i \in LocalIn \cup MayArrive(wave)
        /\ \E v \in VCs, f \in Arrivals(i) :
             /\ top[i][v] = NoFlit
             /\ top' = [top EXCEPT ![i][v] = f]
  /\ UNCHANGED <<wave, pc, rrInvc, picked, pickedVC, ava, flag, port, req,
                 sent>>

\* SA-I, first part: reset the flags, put the flit of the first occupied VC
\* of every input port in m_permu_buf and see which output ports are free.
arbitrate_inports ==
  /\ pc = "input" /\ todo = {}
  /\ pc' = "permute"
  /\ pickedVC' = [i \in InPorts |->
                    IF Occupied(i) = {} THEN rrInvc[i]
                    ELSE FirstFrom(rrInvc[i], Occupied(i))]
  /\ picked' = [i \in InPorts |->
                  IF Occupied(i) = {} THEN NoFlit
                  ELSE top[i][FirstFrom(rrInvc[i], Occupied(i))]]
  /\ todo' = {i \in InPorts : Occupied(i) # {}}
  /\ flag' = [i \in InPorts |-> FALSE]
  /\ port' = [i \in InPorts |-> None]
  /\ ava' = Available(wave)
  /\ UNCHANGED <<wave, top, rrInvc, req, sent>>

\* set_flag and grant_outport of a picked flit.
Grant(i, o, allowed) ==
  /\ port' = [port EXCEPT ![i] = o]
  /\ flag' = [flag EXCEPT ![i] = allowed]
  /\ todo' = todo \ {i}

\* A flit that must leave takes its preferred port, unless that is taken or
\* is a U-turn; then any port getANonLocalOutport returns.  "assert" is the
\* failure of assert(rand_outport != -1).
GrantNonLocal(i) ==
  IF picked[i].prefer \in ava /\ ~uTurn(i)
  THEN /\ Grant(i, picked[i].prefer, TRUE)
       /\ ava' = ava \ {picked[i].prefer}
       /\ UNCHANGED pc
  ELSE \E o \in getANonLocalOutport(i) :
         /\ Grant(i, o, TRUE)
         /\ ava' = ava \ {o}
         /\ pc' = IF o = None THEN "assert" ELSE pc

GoldTodo == {i \in todo : picked[i].gold}

\* Mutant: gold flits in the order of their input ports, not of their ids.
AllocateGold_byPort(i) ==
  /\ pc = "permute"
  /\ i \in GoldTodo /\ \A j \in GoldTodo : i <= j
  /\ IF i \in LocalIn
     THEN /\ Grant(i, picked[i].prefer, TRUE)
          /\ pc' = IF OutDir[picked[i].prefer] = Local THEN pc ELSE "assert"
          /\ UNCHANGED ava
     ELSE GrantNonLocal(i)
  /\ UNCHANGED <<wave, top, rrInvc, picked, pickedVC, req, sent>>

\* permutation_CHIPPER, gold flits, by flit id.  compareFlitID does not order
\* equal ids.  A gold flit of a Local port is granted its Local output port
\* whether or not it is available, and leaves it available.
AllocateGold(i) ==
  /\ pc = "permute"
  /\ i \in GoldTodo /\ \A j \in GoldTodo : picked[i].id <= picked[j].id
  /\ IF i \in LocalIn
     THEN /\ Grant(i, picked[i].prefer, TRUE)
          /\ pc' = IF OutDir[picked[i].prefer] = Local THEN pc ELSE "assert"
          /\ UNCHANGED ava
     ELSE GrantNonLocal(i)
  /\ UNCHANGED <<wave, top, rrInvc, picked, pickedVC, req, sent>>

\* permutation_CHIPPER, the other flits of the non-local input ports.
AllocateNonGold(i) ==
  /\ pc = "permute"
  /\ GoldTodo = {}
  /\ i \in todo \ LocalIn /\ \A j \in todo \ LocalIn : i <= j
  /\ GrantNonLocal(i)
  /\ UNCHANGED <<wave, top, rrInvc, picked, pickedVC, req, sent>>

\* Mutant: the Local flits do not wait for the flits that must leave.
AllocateLocal_early(i) ==
  /\ pc = "permute"
  /\ GoldTodo = {}
  /\ i \in todo \cap LocalIn
  /\ IF picked[i].prefer \in ava
     THEN /\ Grant(i, picked[i].prefer, TRUE)
          /\ ava' = ava \ {picked[i].prefer}
     ELSE \E o \in getANonLocalOutport(i) :
            IF o = None
            THEN Grant(i, picked[i].prefer, FALSE) /\ UNCHANGED ava
            ELSE Grant(i, o, TRUE) /\ ava' = ava \ {o}
  /\ UNCHANGED <<wave, pc, top, rrInvc, picked, pickedVC, req, sent>>

\* Mutant: a Local flit waits for its preferred port and is never deflected.
AllocateLocal_wait(i) ==
  /\ pc = "permute"
  /\ GoldTodo = {} /\ todo \subseteq LocalIn
  /\ i \in todo /\ \A j \in todo : i <= j
  /\ Grant(i, picked[i].prefer, picked[i].prefer \in ava)
  /\ ava' = ava \ {picked[i].prefer}
  /\ UNCHANGED <<wave, pc, top, rrInvc, picked, pickedVC, req, sent>>

\* permutation_CHIPPER, flits waiting at Local ports: they stall when no
\* non-local output port is left.
AllocateLocal(i) ==
  /\ pc = "permute"
  /\ GoldTodo = {} /\ todo \subseteq LocalIn
  /\ i \in todo /\ \A j \in todo : i <= j
  /\ IF picked[i].prefer \in ava
     THEN /\ Grant(i, picked[i].prefer, TRUE)
          /\ ava' = ava \ {picked[i].prefer}
     ELSE \E o \in getANonLocalOutport(i) :
            IF o = None
            THEN Grant(i, picked[i].prefer, FALSE) /\ UNCHANGED ava
            ELSE Grant(i, o, TRUE) /\ ava' = ava \ {o}
  /\ UNCHANGED <<wave, pc, top, rrInvc, picked, pickedVC, req, sent>>

Picked == {i \in InPorts : picked[i] # NoFlit}

\* send_allowed: only TDM_ looks at the flag; a free output VC and a credit
\* are taken for granted.
send_allowed(i) == Tdm => flag[i]

\* Mutant: the round robin pointer does not wrap around.
PlaceRequests_noWrap ==
  /\ pc = "permute" /\ todo = {}
  /\ pc' = IF \A i \in Picked \ LocalIn : send_allowed(i)
           THEN "outports" ELSE "assert"
  /\ req' = {<<port[i], i>> : i \in {j \in Picked : send_allowed(j)}}
  /\ rrInvc' = [i \in InPorts |->
                  IF i \in Picked /\ send_allowed(i)
                  THEN pickedVC[i] + 1 ELSE rrInvc[i]]
  /\ UNCHANGED <<wave, todo, top, picked, pickedVC, ava, flag, port, sent>>

\* SA-I, last part: the picked flits that may be sent request the port they
\* were granted, and the round robin moves past their VCs.
PlaceRequests ==
  /\ pc = "permute" /\ todo = {}
  /\ pc' = IF \A i \in Picked \ LocalIn : send_allowed(i)
           THEN "outports" ELSE "assert"
  /\ req' = {<<port[i], i>> : i \in {j \in Picked : send_allowed(j)}}
  /\ rrInvc' = [i \in InPorts |->
                  IF i \in Picked /\ send_allowed(i)
                  THEN (pickedVC[i] + 1) % NumVCs ELSE rrInvc[i]]
  /\ UNCHANGED <<wave, todo, top, picked, pickedVC, ava, flag, port, sent>>

Requesters(o) == {i \in InPorts : <<o, i>> \in req}

\* SA-II, release rule: while a port is requested by a non-local input port
\* the requests of the Local input ports are passed over.
Eligible(o) ==
  IF Requesters(o) \subseteq LocalIn THEN Requesters(o)
  ELSE Requesters(o) \ LocalIn

\* Mutant: the scan starts at the last input port.
Winner_last(o) ==
  IF Eligible(o) = {} THEN None
  ELSE CHOOSE i \in Eligible(o) : \A j \in Eligible(o) : j <= i

\* m_round_robin_inport was reset in SA-I: the scan starts at input port 0.
Winner(o) == IF Eligible(o) = {} THEN None ELSE First(Eligible(o))

\* A flit left its VC because some output port released it.
Leaves(i) == \E o \in OutPorts : Winner(o) = i

\* SA-II: every requested output port releases one flit.  The VC of a flit
\* that stays keeps the output port CHIPPER wrote into it.
arbitrate_outports ==
  /\ pc = "outports"
  /\ pc' = "done"
  /\ sent' = [o \in OutPorts |-> Winner(o)]
  /\ top' = [i \in InPorts |-> [v \in VCs |->
               IF i \notin Picked \/ v # pickedVC[i] THEN top[i][v]
               ELSE IF Leaves(i) THEN NoFlit
               ELSE [top[i][v] EXCEPT !.prefer = port[i]]]]
  /\ UNCHANGED <<wave, todo, rrInvc, picked, pickedVC, ava, flag, port, req>>

\* clear_request_vector, and the router is woken in the next cycle.
NextCycle ==
  /\ pc = "done"
  /\ pc' = "input"
  /\ wave' = (wave + 1) % WaveNum
  /\ todo' = InPorts
  /\ req' = {}
  /\ picked' = [i \in InPorts |-> NoFlit]
  /\ pickedVC' = [i \in InPorts |-> 0]
  /\ ava' = OutPorts
  /\ flag' = [i \in InPorts |-> FALSE]
  /\ port' = [i \in InPorts |-> None]
  /\ sent' = [o \in OutPorts |-> None]
  /\ UNCHANGED <<top, rrInvc>>

Next ==
  \/ \E i \in InPorts : \/ InputUnitWakeup(i)
                        \/ AllocateGold(i)
                        \/ AllocateNonGold(i)
                        \/ AllocateLocal(i)
  \/ arbitrate_inports
  \/ PlaceRequests
  \/ arbitrate_outports
  \/ NextCycle

Spec == Init /\ [][Next]_vars

\* The event queue executes every scheduled wakeup: a cycle always ends.
FairSpec == Spec /\ WF_vars(Next)

-----------------------------------------------------------------------------
TypeOK ==
  /\ wave \in Waves
  /\ pc \in {"input", "permute", "outports", "done", "assert"}
  /\ todo \subseteq InPorts
  /\ top \in [InPorts -> [VCs -> Flit \cup {NoFlit}]]
  /\ rrInvc \in [InPorts -> VCs]
  /\ picked \in [InPorts -> Flit \cup {NoFlit}]
  /\ pickedVC \in [InPorts -> VCs]
  /\ ava \subseteq OutPorts
  /\ flag \in [InPorts -> BOOLEAN]
  /\ port \in [InPorts -> OutPorts \cup {None}]
  /\ req \subseteq OutPorts \X InPorts
  /\ sent \in [OutPorts -> InPorts \cup {None}]

\* No assertion of permutation_CHIPPER or arbitrate_inports fails: every flit
\* of a non-local input port finds an output port, whatever flits arrive and
\* whichever ports the random choices before it took.
NoAssertionFails == pc # "assert"

\* arbitrate_outports asserts that of two requests for an output port one is
\* Local; here for any two: no output port is promised to two flits that
\* cannot wait.
OneNonLocalRequest ==
  \A o \in OutPorts : \A i, j \in Requesters(o) \ LocalIn : i = j

\* verify_VCs_empty, for every VC and not only the first of each vnet: when
\* SA-II is over nothing is left in a non-local input port.
NonLocalVCsEmpty ==
  pc = "done" => \A i \in NonLocalIn : Occupied(i) = {}

\* A flit for which permutation_CHIPPER reserved an output port is released
\* there in the same cycle: the requests of stalled Local flits (DEFLECTION_
\* sends them too) and of gold Local flits, which reserve nothing, never take
\* the port away from it.
Reserved(i) == i \in Picked /\ flag[i] /\ ~(i \in LocalIn /\ picked[i].gold)

ReservationHonoured ==
  pc = "done" => \A i \in InPorts : Reserved(i) => sent[port[i]] = i

\* A Local flit bound for another router is held back only if every non-local
\* output link that may be used in this wave carries a flit.
WorkConserving ==
  pc = "done" =>
    \A i \in LocalIn : Occupied(i) # {} /\ picked[i] # NoFlit
                       /\ ~picked[i].gold /\ (\A o \in OutPorts : sent[o] # i)
      => \A o \in Available(wave) \cap NonLocalOut : sent[o] # None

\* The gold flit with the smallest id is not deflected: it leaves by the port
\* it prefers if that is a link of this wave and not a U-turn.
IsGolden(i) ==
  /\ i \in Picked \ LocalIn /\ picked[i].gold
  /\ \A j \in Picked \ LocalIn :
       picked[j].gold /\ j # i => picked[i].id < picked[j].id

GoldenNotDeflected ==
  pc = "done" =>
    \A i \in InPorts :
      IsGolden(i) /\ ~uTurn(i) /\ picked[i].prefer \in Available(wave)
        => sent[picked[i].prefer] = i

\* With TDM_ the flit sent in a wave reaches its link in the next one: no link
\* is driven outside the waves of its table, by deflected flits either.
WaveRespected ==
  \A o \in NonLocalOut :
    sent[o] # None => (wave + 1) % WaveNum \in WaveTable[o]

\* A flit at the head of a VC of the only Local input port of a router with
\* TDM_ is not starved by the other VCs of that port: it leaves if the other
\* routers send nothing any more and cycles in which a link may be used keep
\* occurring.  A VC that stalls keeps its turn, because a TDM_ flit without an
\* output port places no request and the round robin does not move.  (With
\* traffic a VC may be starved: a gold Local flit may place a request, lose in
\* SA-II, and the round robin has moved.)
NoTraffic == pc = "done" => \A i \in NonLocalIn : picked[i] = NoFlit
LinkFree  == pc = "done" /\ Available(wave) \cap NonLocalOut # {}

LocalFlitLeaves ==
  <>[]NoTraffic /\ []<>LinkFree =>
    \A i \in LocalIn, v \in VCs : top[i][v] # NoFlit ~> top[i][v] = NoFlit
=============================================================================

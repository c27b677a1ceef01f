-------------------------- MODULE RegistryRefinement --------------------------
(* RegistryApi keeps RegistryPromise: every step of its handlers is a step of *)
(* the promise, or of no account to it.                                      *)
EXTENDS RegistryApiProofs

(* Two handlers are near that touch one schedule or have one binding in hand. *)
Reach(c) == Touches(Req(c))
Holds(c) == Names(Req(c)) \cup DOMAIN h[c].listed
Near(c, d) == Reach(c) \cap Reach(d) # {} \/ Holds(c) \cap Holds(d) # {}
Contested(c) == Reach(c) \subseteq met
NearMet == \A c, d \in Busy : c # d /\ Near(c, d) => Contested(c)

(* What a delete has listed is as it left it, or somebody else has met it.   *)
ListedOK(c) ==
  \A b \in DOMAIN h[c].listed :
    \/ bindings[b] = IF b \in h[c].todo THEN h[c].listed[b] ELSE Absent
    \/ Req(c).sch \in met /\ (bindings[b] # Absent => bindings[b].sch \in met)

(* What a handler that nobody contests has read is still so.                 *)
NeedsSchedule(c) ==
  h[c].pc \in {"list", "cascade", "last", "exists"} \/ At(c, "bind", {"createBinding", "bus", "busNew"})
Fresh(c) ==
  /\ At(c, "put", {"create", "busNew"}) => schedules[Req(c).sch] = Absent
  /\ At(c, "put", Rereads) => h[c].copy = schedules[Req(c).sch]
  /\ NeedsSchedule(c) => schedules[Req(c).sch] # Absent
  /\ At(c, "bind", {"createBinding"}) => bindings[Req(c).bnd] = Absent
  /\ At(c, "bind", {"updateBinding", "deleteBinding"}) => h[c].copy = bindings[Req(c).bnd]
  /\ h[c].pc \in {"cascade", "last"} => BindingsFor(Req(c).sch) \subseteq h[c].todo

MetInv == NearMet /\ \A c \in Busy : ListedOK(c) /\ (Contested(c) \/ Fresh(c))

-----------------------------------------------------------------------------
LEMMA ReachIs ==
  ASSUME NEW c
  PROVE  /\ \A s : s \in Reach(c) <=>
              \/ s = h[c].req.sch
              \/ \E b \in Names(h[c].req) : bindings[b] # Absent /\ s = bindings[b].sch
         /\ \A s : s \in Reach(c)' <=>
              \/ s = h'[c].req.sch
              \/ \E b \in Names(h'[c].req) : bindings'[b] # Absent /\ s = bindings'[b].sch
BY DEF Reach, Touches, Req

(* A handler writes its own schedule and what it names or has listed; a      *)
(* binding it writes goes to its own schedule.                               *)
LEMMA OwnWrites ==
  ASSUME IInv, NEW c \in Clients, Step(c) \/ Fail(c)
  PROVE  /\ \A s \in Schedules : s # Req(c).sch => schedules'[s] = schedules[s]
         /\ \A b \in Bindings :
              /\ b \notin Names(Req(c)) \cup h[c].todo => bindings'[b] = bindings[b]
              /\ \/ bindings'[b] = bindings[b] \/ bindings'[b] = Absent
                 \/ bindings'[b].sch = Req(c).sch
         /\ h'[c] # Idle => \A b \in Names(Req(c)) : bindings'[b] = bindings[b]
<1> USE DEF IInv
<1>1. CASE PutBinding(c)
  <2>1. Req(c).bnd \in Names(Req(c)) /\ h'[c] = Idle
    BY <1>1, NewBindingType, NamesOf DEF PutBinding, Answer, ShapeOK
  <2> QED BY <1>1, <2>1, NewBindingType DEF PutBinding, ShapeOK
<1>2. CASE DeleteBinding(c)
  <2>1. Req(c).bnd \in Names(Req(c)) /\ h'[c] = Idle
    BY <1>2, Running, NamesOf DEF DeleteBinding, At, OnBinding, Answer, ShapeOK
  <2> QED BY <1>2, <2>1 DEF DeleteBinding, ShapeOK
<1>3. ASSUME NEW a \in Bindings, Cascade(c, a)
      PROVE  /\ schedules' = schedules /\ a \in h[c].todo /\ Names(Req(c)) = {}
             /\ \A b \in Bindings : bindings'[b] = IF b = a THEN Absent ELSE bindings[b]
  <2>1. Names(Req(c)) = {}
    BY <1>3, Running, NamesOf DEF Cascade, At, OnBinding
  <2> QED BY <1>3, <2>1 DEF Cascade, ShapeOK
<1>4. CASE PutSchedule(c) \/ DeleteSchedule(c)
  BY <1>4 DEF PutSchedule, DeleteSchedule, ShapeOK
<1> QED BY <1>1, <1>2, <1>3, <1>4, Writes

(* A step lists bindings, or leaves the listings as they are.                *)
LEMMA ListedAfter ==
  ASSUME IInv, NEW c \in Clients, Step(c) \/ Fail(c)
  PROVE  /\ OneHandler(c)
         /\ \A d \in Busy' : d \in Busy /\ h'[d].req = h[d].req
         /\ \A d \in Busy' : \/ h'[d].listed = h[d].listed
                             \/ d = c /\ ListBindings(c)
<1> USE DEF IInv
<1>0. OneHandler(c) /\ \A d \in Busy' : d \in Busy /\ h'[d].req = h[d].req
  <2>1. OneHandler(c)
    BY StepsOne
  <2> QED BY <2>1 DEF OneHandler, Busy, Idle
<1>1. CASE ListBindings(c)
  BY <1>0, <1>1 DEF OneHandler, Busy
<1>2. CASE CheckNew(c) \/ CheckNewBinding(c) \/ GetBinding(c)
  BY <1>0, <1>2 DEF OneHandler, CheckNew, CheckNewBinding, GetBinding, Goto, Answer, Busy,
                    Idle, ShapeOK, Handler
<1>3. CASE GetSchedule(c) \/ PutSchedule(c)
  BY <1>0, <1>3 DEF OneHandler, GetSchedule, PutSchedule, Goto, Answer, Busy, Idle, ShapeOK, Handler
<1>4. CASE Fail(c) \/ DeleteSchedule(c) \/ PutBinding(c) \/ DeleteBinding(c)
  BY <1>0, <1>4 DEF OneHandler, Fail, DeleteSchedule, PutBinding, DeleteBinding, Answer, Busy,
                    Idle, ShapeOK, Handler
<1>5. ASSUME NEW b \in Bindings, Cascade(c, b) PROVE h'[c].listed = h[c].listed
  BY <1>5 DEF Cascade, ShapeOK, Handler
<1> QED BY <1>0, <1>1, <1>2, <1>3, <1>4, <1>5 DEF Step, OneHandler, Busy

LEMMA ListsOwn ==
  ASSUME IInv, NEW c \in Clients, ListBindings(c)
  PROVE  /\ h'[c].todo = BindingsFor(Req(c).sch) /\ DOMAIN h'[c].listed = BindingsFor(Req(c).sch)
         /\ \A b \in BindingsFor(Req(c).sch) : h'[c].listed[b] = bindings[b]
         /\ h'[c].pc \in {"cascade", "last"} /\ UNCHANGED <<schedules, bindings>>
<1> DEFINE S == BindingsFor(Req(c).sch)
           L == [b \in S |-> bindings[b]]
<1>1. /\ h' = [h EXCEPT ![c].listed = L, ![c].todo = S,
                        ![c].pc = IF S = {} THEN "last" ELSE "cascade"]
      /\ UNCHANGED <<schedules, bindings>>
  BY DEF ListBindings
<1>2. DOMAIN L = S /\ \A b \in S : L[b] = bindings[b]
  OBVIOUS
<1> HIDE DEF S, L
<1>3. h'[c].listed = L /\ h'[c].todo = S /\ h'[c].pc \in {"cascade", "last"}
  BY <1>1 DEF IInv, ShapeOK, Handler
<1> QED BY <1>1, <1>2, <1>3 DEF S

LEMMA ListingIsDelete ==
  ASSUME IInv, NEW c \in Clients, NEW b \in DOMAIN h[c].listed
  PROVE  /\ h[c].pc \in {"cascade", "last"} /\ c \in Busy /\ b \in Bindings
         /\ Req(c).op = "delete" /\ Req(c) \in Asked /\ Req(c).sch \in Schedules
         /\ h[c].listed[b] \in Binding /\ h[c].listed[b].sch = Req(c).sch
         /\ Reach(c) = {Req(c).sch}
<1>1. HandlerOK(c) /\ h[c].listed \in Listings /\ h[c].pc \in Pcs
  BY DEF IInv, HandlersOK, ShapeOK, Handler
<1>2. h[c].pc \in {"cascade", "last"}
  BY <1>1, EmptyListing DEF HandlerOK
<1>3. Req(c) \in Asked /\ Req(c).op = "delete"
  BY <1>1, <1>2, Running DEF IInv, HandlerOK, OpsAt
<1>4. Names(h[c].req) = {}
  BY <1>3, NamesOf DEF OnBinding, Req
<1>5. Reach(c) = {Req(c).sch}
  BY <1>4, ReachIs DEF Req
<1> QED BY <1>1, <1>2, <1>3, <1>5, ListingType, RequestShape DEF HandlerOK, Busy

LEMMA BusyShape ==
  ASSUME IInv, NEW c \in Busy
  PROVE  /\ c \in Clients /\ Req(c) \in Asked /\ Req(c).sch \in Schedules /\ Req(c).sch \in Reach(c)
         /\ Names(Req(c)) \subseteq Bindings /\ Holds(c) \subseteq Bindings
         /\ h[c].todo \subseteq DOMAIN h[c].listed /\ HandlerOK(c)
<1>1. c \in Clients /\ Req(c) \in Asked
  BY Running DEF Busy, IInv
<1>2. DOMAIN h[c].listed \subseteq Bindings
  BY <1>1, ListingType DEF IInv, ShapeOK, Handler
<1> QED BY <1>1, <1>2, RequestShape, NamesOf, ReachIs DEF IInv, HandlersOK, HandlerOK, Holds, Req

-----------------------------------------------------------------------------
(* Where another handler changes what one reaches, the two are near.         *)
LEMMA ReachStep ==
  ASSUME IInv, NearMet, NEW c \in Clients, Step(c) \/ Fail(c), NEW d \in Busy', NEW s \in Reach(d)'
  PROVE  s \in Reach(d) \/ (d # c /\ Near(c, d) /\ s = Req(c).sch)
<1>0. OneHandler(c) /\ d \in Busy /\ h'[d].req = h[d].req /\ c \in Busy
  BY ListedAfter DEF OneHandler, Busy
<1>1. CASE s = h[d].req.sch
  BY <1>1, ReachIs
<1>2. CASE s # h[d].req.sch
  <2>1. PICK b \in Names(h[d].req) : bindings'[b] # Absent /\ s = bindings'[b].sch
    BY <1>0, <1>2, ReachIs
  <2>2. b \in Bindings /\ b \in Holds(d)
    BY <1>0, <2>1, BusyShape DEF Holds, Req
  <2>3. CASE bindings'[b] = bindings[b]
    BY <2>1, <2>3, ReachIs
  <2>4. CASE bindings'[b] # bindings[b]
    <3>1. d # c
      <4>1. d = c => h'[c] # Idle
        BY <1>0 DEF Busy, Idle
      <4> QED BY <2>1, <2>4, <4>1, OwnWrites DEF Req
    <3>2. b \in Holds(c)
      BY <1>0, <2>2, <2>4, OwnWrites, BusyShape DEF Holds
    <3>3. s = Req(c).sch
      BY <2>1, <2>2, <2>4, OwnWrites
    <3> QED BY <2>2, <3>1, <3>2, <3>3 DEF Near
  <2> QED BY <2>3, <2>4
<1> QED BY <1>1, <1>2

LEMMA ContestedStays ==
  ASSUME IInv, NearMet, NEW c \in Clients, Step(c) \/ Fail(c), NEW d \in Busy', Contested(d)
  PROVE  Contested(d)'
<1>1. met' = met /\ c \in Busy /\ d \in Busy
  BY ListedAfter DEF OneHandler, Busy
<1>2. d # c /\ Near(c, d) => Req(c).sch \in met
  BY <1>1, BusyShape DEF NearMet, Contested
<1>3. \A s \in Reach(d)' : s \in met
  BY <1>2, ReachStep DEF Contested
<1> QED BY <1>1, <1>3 DEF Contested

(* Whom a step brings near one another, were so, or near its handler.        *)
LEMMA NearStep ==
  ASSUME IInv, MetInv, NEW c \in Clients, Step(c) \/ Fail(c)
  PROVE  NearMet'
<1>0. OneHandler(c) /\ NearMet /\ c \in Busy /\ met' = met
  BY ListedAfter DEF MetInv, OneHandler, Busy
<1> SUFFICES ASSUME NEW d \in Busy', NEW e \in Busy', d # e, Near(d, e)', ~Contested(d)'
             PROVE  FALSE
  BY DEF NearMet
<1>1. d \in Busy /\ e \in Busy /\ h'[d].req = h[d].req /\ h'[e].req = h[e].req
  BY ListedAfter
<1>2. ~Contested(d) /\ ~Near(d, e) /\ ~Near(e, d)
  BY <1>0, <1>1, ContestedStays DEF NearMet, Near
<1>3. d # c => ~Near(c, d) /\ ~Near(d, c)
  BY <1>0, <1>1, <1>2 DEF NearMet, Near
<1>4. CASE Reach(d)' \cap Reach(e)' # {}
  <2>1. PICK s \in Reach(d)' : s \in Reach(e)'
    BY <1>4
  <2>2. s \in Reach(d)
    BY <1>0, <1>1, <1>3, <2>1, ReachStep
  <2>3. CASE s \in Reach(e)
    BY <1>2, <2>2, <2>3 DEF Near
  <2>4. CASE e # c /\ Near(c, e) /\ s = Req(c).sch
    <3>1. s \in Reach(c)
      BY <1>0, <2>4, BusyShape
    <3>2. d = c
      BY <1>3, <2>2, <3>1 DEF Near
    <3> QED BY <1>2, <2>4, <3>2
  <2> QED BY <1>0, <1>1, <2>1, <2>3, <2>4, ReachStep
<1>5. CASE Holds(d)' \cap Holds(e)' # {}
  <2>1. PICK b : b \in Holds(d)' /\ b \in Holds(e)'
    BY <1>5
  <2>2. ListBindings(c) /\ (d = c \/ e = c)
    BY <1>1, <1>2, <2>1, ListedAfter DEF Holds, Near, Req
  <2>3. PICK x \in {d, e} : x # c
    BY <1>1, <2>2
  <2>4. x \in Busy' /\ x \in Busy /\ b \in Holds(x) /\ b \in Holds(c)' /\ ~Near(x, c) /\ ~Near(c, x)
    BY <1>0, <1>1, <1>2, <1>3, <2>1, <2>2, <2>3, ListedAfter DEF OneHandler, Holds, Req, Near
  <2>5. b \notin Holds(c)
    BY <2>4 DEF Near
  <2>6. b \in BindingsFor(Req(c).sch)
    BY <1>0, <2>2, <2>4, <2>5, ListsOwn DEF Holds, Req, OneHandler, Idle
  <2>7. b \in Bindings /\ bindings[b] # Absent /\ bindings[b].sch = Req(c).sch
    BY <2>6 DEF BindingsFor
  <2>8. CASE b \in Names(Req(x))
    <3>1. Req(c).sch \in Reach(x)
      BY <2>7, <2>8, ReachIs DEF Req
    <3> QED BY <1>0, <2>4, <3>1, BusyShape DEF Near
  <2>9. CASE b \in DOMAIN h[x].listed
    <3>1. h[x].listed[b].sch = Req(x).sch /\ x \in Clients /\ Reach(x) = {Req(x).sch}
      BY <2>4, <2>9, ListingIsDelete DEF Busy
    <3>2. Req(c).sch # Req(x).sch
      BY <1>0, <2>4, BusyShape DEF Near
    <3>3. Req(x).sch \in met /\ Req(c).sch \in met
      BY <2>4, <2>7, <2>9, <3>1, <3>2 DEF MetInv, ListedOK
    <3>4. Reach(c) = {Req(c).sch}
      <4>1. Req(c).op = "delete" /\ Req(c) \in Asked
        BY <1>0, <2>2, BusyShape DEF ListBindings, At
      <4>2. Names(h[c].req) = {}
        BY <4>1, NamesOf DEF OnBinding, Req
      <4> QED BY <4>2, ReachIs DEF Req
    <3>5. Contested(c) /\ Contested(x)
      BY <3>1, <3>3, <3>4 DEF Contested
    <3> QED BY <1>2, <2>2, <2>3, <3>5
  <2> QED BY <2>4, <2>8, <2>9 DEF Holds
<1> QED BY <1>4, <1>5 DEF Near

(* What a delete has in hand another writes only where they have met.        *)
LEMMA ListedStep ==
  ASSUME IInv, MetInv, NEW c \in Clients, Step(c) \/ Fail(c), NEW d \in Busy'
  PROVE  ListedOK(d)'
<1>0. OneHandler(c) /\ NearMet /\ c \in Busy /\ met' = met
  BY ListedAfter DEF MetInv, OneHandler, Busy
<1>1. d \in Busy /\ d \in Clients /\ h'[d].req = h[d].req /\ ListedOK(d)
  BY ListedAfter DEF MetInv, Busy
<1> SUFFICES ASSUME NEW b \in DOMAIN h'[d].listed
             PROVE  \/ bindings'[b] = IF b \in h'[d].todo THEN h'[d].listed[b] ELSE Absent
                    \/ h[d].req.sch \in met /\ (bindings'[b] # Absent => bindings'[b].sch \in met)
  BY <1>0, <1>1 DEF ListedOK, Req
<1>2. CASE d = c /\ ListBindings(c)
  BY <1>2, ListsOwn
<1>3. CASE d = c /\ ~ListBindings(c)
  <2>1. h'[c].listed = h[c].listed /\ b \in DOMAIN h[c].listed /\ h'[c] # Idle
    BY <1>3, ListedAfter, EmptyListing DEF Busy, Idle
  <2>2. h[c].pc \in {"cascade", "last"} /\ Req(c).op = "delete" /\ b \in Bindings
    BY <2>1, ListingIsDelete
  <2>3. PICK a \in Bindings : Cascade(c, a)
    <3>1. ~(Fail(c) \/ DeleteSchedule(c))
      BY <2>1 DEF Fail, DeleteSchedule, Answer, IInv, ShapeOK
    <3> QED BY <1>3, <2>2, <3>1 DEF Step, CheckNew, GetSchedule, PutSchedule, CheckNewBinding,
                                    GetBinding, PutBinding, DeleteBinding, At
  <2>4. /\ h'[c].todo = h[c].todo \ {a} /\ a \in h[c].todo
        /\ \A x \in Bindings : bindings'[x] = IF x = a THEN Absent ELSE bindings[x]
    BY <2>3 DEF Cascade, IInv, ShapeOK, Handler
  <2> QED BY <1>1, <1>3, <2>1, <2>2, <2>4 DEF ListedOK, Req
<1>4. CASE d # c
  <2>1. h'[d] = h[d] /\ b \in DOMAIN h[d].listed /\ b \in Bindings
        /\ h[d].listed[b].sch = Req(d).sch /\ h[d].listed[b] # Absent
    BY <1>0, <1>1, <1>4, ListingIsDelete, AbsentIsNone DEF OneHandler
  <2>2. CASE bindings'[b] = bindings[b]
    BY <1>1, <2>1, <2>2 DEF ListedOK, Req
  <2>3. CASE bindings'[b] # bindings[b]
    <3>1. b \in Holds(c) /\ b \in Holds(d)
      BY <1>0, <2>1, <2>3, OwnWrites, BusyShape DEF Holds
    <3>2. Contested(c) /\ Contested(d)
      BY <1>0, <1>1, <1>4, <3>1 DEF NearMet, Near
    <3>3. Req(c).sch \in met /\ Req(d).sch \in met
      BY <1>0, <1>1, <3>2, BusyShape DEF Contested
    <3> QED BY <2>1, <2>3, <3>3, OwnWrites DEF Req
  <2> QED BY <2>2, <2>3
<1> QED BY <1>2, <1>3, <1>4

LEMMA OthersFresh ==
  ASSUME IInv, MetInv, NEW c \in Clients, Step(c) \/ Fail(c), NEW d \in Busy', d # c,
         ~Contested(d)'
  PROVE  Fresh(d)'
<1>0. OneHandler(c) /\ NearMet /\ c \in Busy
  BY ListedAfter DEF MetInv, OneHandler, Busy
<1>1. d \in Busy /\ d \in Clients /\ h'[d] = h[d] /\ Fresh(d) /\ ~Near(d, c)
  BY <1>0, ListedAfter, ContestedStays DEF MetInv, NearMet, Busy, OneHandler
<1>2. Req(d) \in Asked /\ Req(d).sch \in Schedules /\ Req(c).sch # Req(d).sch
  BY <1>0, <1>1, BusyShape DEF Near
<1>3. schedules'[Req(d).sch] = schedules[Req(d).sch]
  BY <1>2, OwnWrites
<1>4. \A b \in Holds(d) : bindings'[b] = bindings[b]
  BY <1>0, <1>1, OwnWrites, BusyShape DEF Holds, Near
<1>5. At(d, "bind", {"createBinding", "updateBinding", "deleteBinding"}) => Req(d).bnd \in Holds(d)
  BY <1>2, NamesOf DEF At, OnBinding, Holds
<1>6. BindingsFor(Req(d).sch)' \subseteq BindingsFor(Req(d).sch)
  <2> SUFFICES ASSUME NEW b \in Bindings, bindings'[b] # Absent, bindings'[b].sch = h'[d].req.sch
               PROVE  bindings[b] # Absent /\ bindings[b].sch = Req(d).sch
    BY DEF BindingsFor, Req
  <2> QED BY <1>1, <1>2, OwnWrites DEF Req
<1> QED BY <1>1, <1>3, <1>4, <1>5, <1>6 DEF Fresh, NeedsSchedule, At, Req

(* What a handler has just read is so.                                       *)
LEMMA OwnFresh ==
  ASSUME IInv, MetInv, NEW c \in Clients, Step(c) \/ Fail(c), c \in Busy', ~Contested(c)'
  PROVE  Fresh(c)'
<1> USE DEF IInv, Goto, Answer
<1>0. /\ HandlerOK(c) /\ h[c] \in Handler /\ Fresh(c) /\ c \in Busy
      /\ h'[c] # Idle /\ h'[c].req = h[c].req /\ Req(c) \in Asked /\ Req(c).sch \in Schedules
  BY ListedAfter, ContestedStays, BusyShape DEF MetInv, ShapeOK, Busy, Idle
<1>1. CASE CheckNew(c)
  BY <1>0, <1>1 DEF CheckNew, Fresh, NeedsSchedule, At, ShapeOK, Handler, Req, Rereads
<1>2. CASE CheckNewBinding(c)
  BY <1>0, <1>2 DEF CheckNewBinding, Fresh, NeedsSchedule, At, ShapeOK, Handler, Req, Rereads
<1>3. CASE GetSchedule(c)
  <2>1. /\ h'[c].copy = schedules[Req(c).sch] /\ schedules[Req(c).sch] # Absent
        /\ h'[c].pc \in {"list", "exists", "put"}
        /\ h'[c].pc = "put" => Req(c).op \in Rereads
        /\ UNCHANGED <<schedules, bindings>>
    BY <1>0, <1>3 DEF GetSchedule, At, ShapeOK, Handler, Rereads
  <2> QED BY <1>0, <2>1 DEF Fresh, NeedsSchedule, At, Req, Rereads
<1>4. CASE GetBinding(c)
  <2>1. /\ h'[c].copy = bindings[Req(c).bnd] /\ h'[c].pc = "bind" /\ UNCHANGED <<schedules, bindings>>
        /\ Req(c).op \in {"updateBinding", "deleteBinding"}
    BY <1>0, <1>4 DEF GetBinding, At, ShapeOK, Handler
  <2> QED BY <1>0, <2>1 DEF Fresh, NeedsSchedule, At, Req
<1>5. CASE PutSchedule(c)
  <2>1. /\ h'[c].pc = "bind" /\ Req(c).op \in {"bus", "busNew"}
        /\ schedules'[Req(c).sch] = NewSchedule(Req(c), h[c].copy)
    BY <1>0, <1>5 DEF PutSchedule, ShapeOK, Handler
  <2> QED BY <1>0, <1>5, <2>1, NewScheduleType DEF Fresh, NeedsSchedule, At, Req
<1>6. CASE ListBindings(c)
  <2>1. schedules[Req(c).sch] # Absent
    BY <1>0, <1>6 DEF ListBindings, At, Fresh, NeedsSchedule
  <2>2. BindingsFor(Req(c).sch)' = BindingsFor(Req(c).sch)
    BY <1>0, <1>6, ListsOwn DEF BindingsFor, Req
  <2> QED BY <1>0, <1>6, <2>1, <2>2, ListsOwn DEF Fresh, NeedsSchedule, At, Req
<1>7. ASSUME NEW b \in Bindings, Cascade(c, b) PROVE Fresh(c)'
  <2>1. /\ h'[c].todo = h[c].todo \ {b} /\ h'[c].pc \in {"last", "cascade"}
        /\ schedules' = schedules /\ h[c].pc = "cascade"
        /\ \A a \in Bindings : bindings'[a] = IF a = b THEN Absent ELSE bindings[a]
    BY <1>7 DEF Cascade, At, ShapeOK, Handler
  <2>2. BindingsFor(Req(c).sch)' \subseteq BindingsFor(Req(c).sch) \ {b}
    BY <1>0, <2>1 DEF BindingsFor, Req
  <2> QED BY <1>0, <2>1, <2>2 DEF Fresh, NeedsSchedule, At, Req
<1>8. CASE Fail(c) \/ DeleteSchedule(c) \/ PutBinding(c) \/ DeleteBinding(c)
  BY <1>0, <1>8 DEF Fail, DeleteSchedule, PutBinding, DeleteBinding, ShapeOK
<1> QED BY <1>1, <1>2, <1>3, <1>4, <1>5, <1>6, <1>7, <1>8 DEF Step

(* A request that arrives has met all it overlaps with.                      *)
LEMMA MetBegin ==
  ASSUME IInv, MetInv, NEW c \in Clients, NEW r \in Asked, Begin(c, r)
  PROVE  MetInv'
<1> USE DEF IInv
<1>0. /\ UNCHANGED <<schedules, bindings>> /\ h[c].pc = "idle" /\ NearMet
      /\ \A d \in Clients \ {c} : h'[d] = h[d]
      /\ h'[c].pc \in {"put", "check"} /\ h'[c].req = r /\ h'[c].listed = <<>>
      /\ h'[c].pc = "put" => r.op = "bus"
  <2>1. UNCHANGED <<schedules, bindings>>
    BY DEF Begin
  <2> QED BY <2>1, BeginsOne DEF MetInv
<1>1. \A d \in Busy' : d = c \/ (d # c /\ d \in Busy /\ h'[d] = h[d])
  BY <1>0 DEF Busy
<1>2. ASSUME NEW d \in Busy PROVE met \subseteq met'
  BY <1>2 DEF Begin
<1>3. ASSUME NEW d \in Busy, Overlaps(r, d) PROVE Touches(r) \cup Reach(d) \subseteq met'
  <2> DEFINE with == {Req(x) : x \in {y \in Busy : Overlaps(r, y)}}
  <2>1. Req(d) \in with
    BY <1>3
  <2>2. met' = met \cup IF with = {} THEN {} ELSE UNION {Touches(q) : q \in with \cup {r}}
    BY <1>3 DEF Begin
  <2> HIDE DEF with
  <2> QED BY <2>1, <2>2 DEF Reach
<1>4. ASSUME NEW d \in Busy PROVE Reach(d)' = Reach(d) /\ Holds(d)' = Holds(d)
  BY <1>0, <1>4 DEF Reach, Holds, Touches, Req, Busy
<1>5. Reach(c)' = Touches(r) /\ Holds(c)' = Names(r)
  BY <1>0, EmptyListing DEF Reach, Holds, Touches, Req
<1>6. NearMet'
  <2> SUFFICES ASSUME NEW d \in Busy', NEW e \in Busy', d # e, Near(d, e)'
               PROVE  Reach(d)' \subseteq met'
    BY DEF NearMet, Contested
  <2>1. CASE d # c /\ e # c
    BY <1>0, <1>1, <1>2, <1>4, <2>1 DEF NearMet, Near, Contested
  <2>2. CASE d = c
    BY <1>1, <1>3, <1>4, <1>5, <2>2 DEF Near, Overlaps, Reach, Holds
  <2>3. CASE e = c
    BY <1>1, <1>3, <1>4, <1>5, <2>3 DEF Near, Overlaps, Reach, Holds
  <2> QED BY <2>1, <2>2, <2>3
<1>7. ASSUME NEW d \in Busy' PROVE ListedOK(d)' /\ (Contested(d)' \/ Fresh(d)')
  <2>1. CASE d = c
    BY <1>0, <2>1, EmptyListing, RequestShape DEF ListedOK, Fresh, NeedsSchedule, At, Req, Rereads
  <2>2. CASE d # c
    <3>1. d \in Busy /\ h'[d] = h[d] /\ met \subseteq met'
      BY <1>1, <1>2, <2>2
    <3>2. ListedOK(d)'
      BY <1>0, <3>1 DEF MetInv, ListedOK, Req
    <3>3. Fresh(d) => Fresh(d)'
      BY <1>0, <3>1 DEF Fresh, NeedsSchedule, BindingsFor, At, Req
    <3> QED BY <1>4, <3>1, <3>2, <3>3 DEF MetInv, Contested
  <2> QED BY <2>1, <2>2
<1> QED BY <1>6, <1>7 DEF MetInv

(* So where requests have not met, what a handler has read is still so when  *)
(* it writes.                                                                *)
LEMMA MetStep == IInv /\ MetInv /\ [Next]_vars => MetInv'
<1> SUFFICES ASSUME IInv, MetInv, [Next]_vars PROVE MetInv'
  OBVIOUS
<1>1. ASSUME NEW c \in Clients, Step(c) \/ Fail(c) PROVE MetInv'
  <2>1. \A d \in Busy' : Contested(d)' \/ Fresh(d)'
    BY <1>1, OwnFresh, OthersFresh
  <2> QED BY <1>1, <2>1, NearStep, ListedStep DEF MetInv
<1>2. ASSUME NEW c \in Clients, NEW r \in Asked, Begin(c, r) PROVE MetInv'
  BY <1>2, MetBegin
<1>3. CASE UNCHANGED vars
  <2>1. UNCHANGED <<schedules, bindings, h, met>>
    BY <1>3 DEF vars
  <2>2. Busy' = Busy /\ \A c \in Busy : Reach(c)' = Reach(c) /\ Holds(c)' = Holds(c)
    BY <2>1 DEF Busy, Reach, Touches, Holds, Req
  <2>3. NearMet'
    BY <2>1, <2>2 DEF MetInv, NearMet, Near, Contested
  <2>4. ASSUME NEW c \in Busy PROVE (ListedOK(c) => ListedOK(c)') /\ (Fresh(c) => Fresh(c)')
    BY <2>1 DEF ListedOK, Fresh, NeedsSchedule, BindingsFor, At, Req
  <2> QED BY <2>1, <2>2, <2>3, <2>4 DEF MetInv, Contested
<1> QED BY <1>1, <1>2, <1>3 DEF Next

-----------------------------------------------------------------------------
(* Shown says of a hidden binding what it was, and of any other what it is.  *)
ShownOK ==
  \A b \in Bindings :
    /\ \A c, d \in Clients : b \in Hidden(c) /\ b \in Hidden(d) => c = d
    /\ \A c \in Clients : b \in Hidden(c) => Shown[b] = h[c].listed[b] /\ bindings[b] = Absent
    /\ (\A c \in Clients : b \notin Hidden(c)) => Shown[b] = bindings[b]

PromiseInv == IInv /\ MetInv /\ ShownOK /\ Promise!TypeOK

LEMMA HiddenIs ==
  ASSUME IInv, MetInv, NEW c \in Clients, NEW b \in Hidden(c)
  PROVE  /\ b \in DOMAIN h[c].listed /\ b \notin h[c].todo /\ b \in Holds(c) /\ c \in Busy
         /\ b \in Bindings /\ ~Contested(c) /\ bindings[b] = Absent
         /\ h[c].listed[b] \in Binding /\ h[c].listed[b].sch = Req(c).sch
<1>1. b \in DOMAIN h[c].listed /\ b \notin h[c].todo /\ Req(c).sch \notin met
  BY DEF Hidden
<1> QED BY <1>1, ListingIsDelete DEF Holds, Contested, MetInv, ListedOK

(* What one handler has in hand no other hides.                              *)
LEMMA HeldIsShown ==
  ASSUME IInv, MetInv, NEW c \in Busy, NEW b \in Holds(c), NEW d \in Clients, d # c
  PROVE  b \notin Hidden(d)
BY HiddenIs DEF MetInv, NearMet, Near

LEMMA ShownIs == IInv /\ MetInv => PromiseInv
<1> SUFFICES ASSUME IInv, MetInv PROVE ShownOK /\ Promise!TypeOK
  BY DEF PromiseInv
<1>1. \A b \in Bindings, c, d \in Clients : b \in Hidden(c) /\ b \in Hidden(d) => c = d
  BY HiddenIs, HeldIsShown
<1>2. ASSUME NEW b \in Bindings, NEW c \in Clients, b \in Hidden(c)
      PROVE  Shown[b] = h[c].listed[b] /\ bindings[b] = Absent
  <2>1. (CHOOSE d \in Clients : b \in Hidden(d)) = c
    BY <1>1, <1>2
  <2> QED BY <1>2, <2>1, HiddenIs DEF Shown
<1>3. ASSUME NEW b \in Bindings, \A c \in Clients : b \notin Hidden(c) PROVE Shown[b] = bindings[b]
  BY <1>3 DEF Shown
<1>4. \A b \in Bindings : Shown[b] \in Binding \cup {Absent}
  BY <1>2, <1>3, HiddenIs DEF IInv, ShapeOK
<1>5. Shown \in [Bindings -> Binding \cup {Absent}]
  <2> DEFINE f == [b \in Bindings |-> Shown[b]]
  <2>1. Shown = f
    BY DEF Shown
  <2> QED BY <1>4, <2>1
<1>6. Promise!TypeOK
  BY <1>5 DEF Promise!TypeOK, Promise!Schedule, Promise!Binding, Schedule, Binding, IInv, ShapeOK
<1> QED BY <1>1, <1>2, <1>3, <1>6 DEF ShownOK

(* Where requests have not met, each has what it has read and is alone in    *)
(* what it hides (the handlers of api.py and ingress.py at their awaits).    *)
THEOREM Undisturbed == Spec => []PromiseInv
<1>1. Init => MetInv
  BY DEF Init, MetInv, NearMet, Busy, Idle
<1> QED BY <1>1, InitInv, StepInv, MetStep, ShownIs, PTL DEF Spec

-----------------------------------------------------------------------------
(* What a request has still to come by.                                      *)
LEMMA PendingIs ==
  ASSUME IInv, NEW c \in Clients
  PROVE  /\ h[c].pc = "idle" <=> Pending[c] = NoRequest
         /\ ~At(c, "bind", {"bus", "busNew"}) => Pending[c] = Req(c)
         /\ At(c, "bind", {"bus", "busNew"}) =>
              /\ Pending[c] = [Req(c) EXCEPT !.op = "attach"] /\ Pending[c].op = "attach"
              /\ Pending[c].sch = Req(c).sch /\ Pending[c].bnd = Req(c).bnd
              /\ Pending[c].data = Req(c).data
         /\ c \in Busy => Pending[c].sch = Req(c).sch /\ Promise!Named(Pending[c]) = Names(Req(c))
<1>1. Pending[c] = IF At(c, "bind", {"bus", "busNew"}) THEN [Req(c) EXCEPT !.op = "attach"] ELSE Req(c)
  BY DEF Pending
<1>2. CASE ~At(c, "bind", {"bus", "busNew"})
  <2>1. h[c].pc = "idle" <=> Req(c) = NoRequest
    BY Running, RequestShape DEF IInv
  <2> QED BY <1>1, <1>2, <2>1 DEF Promise!Named, Names
<1>3. CASE At(c, "bind", {"bus", "busNew"})
  <2>1. Req(c) \in Asked /\ h[c].pc # "idle"
    BY <1>3, Running DEF At, IInv
  <2>2. Req(c) \in [op : {"bus", "busNew"}, sch : Schedules, new : Schedule, bnd : Bindings, data : Data]
    BY <1>3, <2>1, RequestShape DEF Requests, At
  <2> QED BY <1>1, <1>3, <2>1, <2>2 DEF Promise!Named, Names, NoRequest
<1> QED BY <1>2, <1>3

(* The promise's view of what a request touches is the handler's.            *)
LEMMA TouchedIs ==
  ASSUME PromiseInv, NEW c \in Busy
  PROVE  /\ Promise!Touched(Pending[c]) = Reach(c)
         /\ \A b \in Names(Req(c)) : b \in Bindings /\ Shown[b] = bindings[b]
<1>1. c \in Clients /\ Names(Req(c)) \subseteq Bindings /\ Req(c) \in Asked
  BY BusyShape DEF PromiseInv
<1>2. ASSUME NEW b \in Names(Req(c)) PROVE b \in Bindings /\ Shown[b] = bindings[b]
  <2>1. b \in Bindings /\ b \in Holds(c)
    BY <1>1 DEF Holds
  <2>2. b \notin Hidden(c)
    <3>1. Names(Req(c)) = {} \/ DOMAIN h[c].listed = {}
      BY <1>1, ListingIsDelete, NamesOf DEF PromiseInv, OnBinding
    <3> QED BY <3>1 DEF Hidden
  <2> QED BY <2>1, <2>2, HeldIsShown DEF PromiseInv, ShownOK
<1>3. Promise!Touched(Pending[c]) = Touches(Req(c))
  <2> DEFINE S == {b \in Names(Req(c)) : Shown[b] # Absent}
             B == {b \in Names(Req(c)) : bindings[b] # Absent}
  <2>1. Pending[c].sch = Req(c).sch /\ Promise!Named(Pending[c]) = Names(Req(c))
    BY <1>1, PendingIs DEF PromiseInv
  <2>2. S = B /\ {Shown[b].sch : b \in S} = {bindings[b].sch : b \in B}
    BY <1>2
  <2> QED BY <2>1, <2>2 DEF Promise!Touched, Touches
<1> QED BY <1>2, <1>3 DEF Reach

(* How a step of one handler changes what is asked.                          *)
LEMMA PendingStep ==
  ASSUME IInv, NEW c \in Clients, OneHandler(c)
  PROVE  /\ h'[c] = Idle => Promise!Over(c)
         /\ h'[c] # Idle /\ At(c, "bind", {"bus", "busNew"})' = At(c, "bind", {"bus", "busNew"})
              => Pending' = Pending
         /\ At(c, "bind", {"bus", "busNew"})' /\ ~At(c, "bind", {"bus", "busNew"})
              => Promise!HalfOver(c)
<1> DEFINE P(d) == IF At(d, "bind", {"bus", "busNew"}) THEN [Req(d) EXCEPT !.op = "attach"] ELSE Req(d)
<1>1. Pending = [d \in Clients |-> P(d)] /\ Pending' = [d \in Clients |-> P(d)']
  BY DEF Pending
<1>2. \A d \in Clients \ {c} : P(d)' = P(d)
  BY DEF OneHandler, At, Req
<1>3. h'[c] = Idle => P(c)' = NoRequest
  BY DEF Idle, At, Req
<1>4. h'[c] # Idle => Req(c)' = Req(c)
  BY DEF OneHandler, Req
<1>5. At(c, "bind", {"bus", "busNew"})' => h'[c] # Idle
  BY DEF At, Idle
<1>6. h'[c] # Idle /\ At(c, "bind", {"bus", "busNew"})' = At(c, "bind", {"bus", "busNew"}) => P(c)' = P(c)
  BY <1>4
<1>7. At(c, "bind", {"bus", "busNew"})' /\ ~At(c, "bind", {"bus", "busNew"})
        => P(c)' = [P(c) EXCEPT !.op = "attach"]
  BY <1>4, <1>5
<1> HIDE DEF P
<1> QED BY <1>1, <1>2, <1>3, <1>6, <1>7 DEF Promise!Over, Promise!HalfOver

(* How a step of one handler changes what is shown.                          *)
LEMMA ShownStep ==
  ASSUME ShownOK, ShownOK', NEW c \in Clients, OneHandler(c), NEW b \in Bindings
  PROVE  /\ b \in Hidden(c)' => Shown'[b] = h'[c].listed[b]
         /\ b \in Hidden(c) => Shown[b] = h[c].listed[b] /\ bindings[b] = Absent
         /\ b \in Hidden(c) /\ b \notin Hidden(c)' => Shown'[b] = bindings'[b]
         /\ b \notin Hidden(c) /\ b \notin Hidden(c)' =>
              /\ bindings'[b] = bindings[b] => Shown'[b] = Shown[b]
              /\ (\A d \in Clients : b \notin Hidden(d)) => Shown'[b] = bindings'[b]
              /\ (\E d \in Clients : b \in Hidden(d)) => Shown'[b] = Shown[b]
<1>1. \A d \in Clients \ {c} : (b \in Hidden(d)') = (b \in Hidden(d))
  BY DEF Hidden, OneHandler, Req
<1>2. b \in Hidden(c)' => Shown'[b] = h'[c].listed[b]
  BY DEF ShownOK
<1>3. ASSUME b \in Hidden(c), b \notin Hidden(c)' PROVE Shown'[b] = bindings'[b]
  BY <1>1, <1>3 DEF ShownOK
<1>4. ASSUME b \notin Hidden(c), b \notin Hidden(c)', \A d \in Clients : b \notin Hidden(d)
      PROVE  Shown'[b] = bindings'[b] /\ Shown[b] = bindings[b]
  BY <1>1, <1>4 DEF ShownOK
<1>5. ASSUME NEW d \in Clients \ {c}, b \in Hidden(d) PROVE Shown'[b] = Shown[b]
  BY <1>1, <1>5 DEF ShownOK, OneHandler
<1> QED BY <1>2, <1>3, <1>4, <1>5 DEF ShownOK

LEMMA ShownSame ==
  ASSUME \A b \in Bindings : Shown'[b] = Shown[b]
  PROVE  Shown' = Shown
<1> DEFINE f == [b \in Bindings |-> Shown[b]]
           g == [b \in Bindings |-> Shown'[b]]
<1>1. Shown = f /\ Shown' = g
  BY DEF Shown
<1> QED BY <1>1

(* A step that hides nothing new, owns up to nothing and writes no binding.  *)
LEMMA NothingShows ==
  ASSUME ShownOK, ShownOK', NEW c \in Clients, OneHandler(c),
         Hidden(c) = {}, Hidden(c)' = {}, bindings' = bindings
  PROVE  Shown' = Shown
BY ShownStep, ShownSame

LEMMA NothingHidden ==
  ASSUME IInv, NEW c \in Clients
  PROVE  /\ h[c].pc \notin {"cascade", "last"} => Hidden(c) = {}
         /\ HandlersOK' /\ h'[c].pc \notin {"cascade", "last"} => Hidden(c)' = {}
BY EmptyListing DEF IInv, HandlersOK, HandlerOK, Hidden

LEMMA IdleHides ==
  ASSUME NEW c \in Clients, h'[c] = Idle
  PROVE  Hidden(c)' = {}
BY EmptyListing DEF Hidden, Idle

-----------------------------------------------------------------------------
PromiseStep == [Promise!Next]_Promise!vars
Still == UNCHANGED <<schedules, Shown, Pending, met, failures>>

LEMMA StillIs == Still => PromiseStep
BY DEF Still, PromiseStep, Promise!vars

LEMMA CarryIs ==
  ASSUME NEW c \in Clients, Step(c), OneHandler(c), Promise!Carry(c)
  PROVE  PromiseStep
<1>1. met' = met /\ failures' = failures
  BY DEF OneHandler, Step, CheckNew, GetSchedule, PutSchedule, ListBindings, Cascade, DeleteSchedule,
         CheckNewBinding, GetBinding, PutBinding, DeleteBinding
<1> QED BY <1>1 DEF PromiseStep, Promise!Next

(* Whom a request overlaps the promise sees it meet, and all it touches.     *)
LEMMA MeetsAll ==
  ASSUME PromiseInv, NEW r \in Asked
  PROVE  /\ Touches(r) \subseteq Promise!Touched(r)
         /\ \A d \in Busy : Overlaps(r, d) => Promise!Meets(r, Pending[d])
<1> USE DEF PromiseInv
<1>1. Promise!Named(r) = Names(r) /\ Names(r) \subseteq Bindings
  BY NamesOf DEF Promise!Named, Names
<1>2. \A b \in Names(r) : Shown[b] # Absent => Shown[b].sch \in Promise!Touched(r)
  BY <1>1 DEF Promise!Touched
<1>3. \A b \in Names(r) : bindings[b] # Absent => Shown[b] = bindings[b]
  BY <1>1 DEF ShownOK
<1>4. Touches(r) \subseteq Promise!Touched(r)
  <2>1. r.sch \in Promise!Touched(r)
    BY DEF Promise!Touched
  <2> QED BY <1>2, <1>3, <2>1 DEF Touches
<1>5. ASSUME NEW d \in Busy, Overlaps(r, d) PROVE Promise!Meets(r, Pending[d])
  <2>1. Promise!Touched(Pending[d]) = Reach(d) /\ Promise!Named(Pending[d]) = Names(Req(d)) /\ d \in Clients
    BY TouchedIs, PendingIs, BusyShape
  <2>2. CASE Touches(r) \cap Reach(d) # {} \/ Names(r) \cap Names(Req(d)) # {}
    BY <1>1, <1>4, <2>1, <2>2 DEF Promise!Meets
  <2>3. CASE \E b \in Names(r) : b \in DOMAIN h[d].listed
    <3>1. PICK b \in Names(r) : b \in DOMAIN h[d].listed
      BY <2>3
    <3>2. Reach(d) = {Req(d).sch} /\ h[d].listed[b].sch = Req(d).sch /\ h[d].listed[b] # Absent
      BY <2>1, <3>1, ListingIsDelete, AbsentIsNone
    <3>3. CASE Req(d).sch \in met
      BY <2>1, <3>2, <3>3 DEF Promise!Meets
    <3>4. CASE Req(d).sch \notin met
      <4>1. Shown[b] = h[d].listed[b]
        <5>1. CASE b \in h[d].todo
          <6>1. bindings[b] = h[d].listed[b]
            BY <3>1, <3>4, <5>1 DEF MetInv, ListedOK
          <6> QED BY <1>3, <3>1, <3>2, <6>1
        <5>2. CASE b \notin h[d].todo
          BY <1>1, <2>1, <3>1, <3>4, <5>2 DEF Hidden, ShownOK
        <5> QED BY <5>1, <5>2
      <4>2. Req(d).sch \in Promise!Touched(r)
        BY <1>2, <3>1, <3>2, <4>1
      <4> QED BY <2>1, <3>2, <4>2 DEF Promise!Meets
    <3> QED BY <3>3, <3>4
  <2> QED BY <1>5, <2>2, <2>3 DEF Overlaps, Reach
<1> QED BY <1>4, <1>5

LEMMA BeginKeeps ==
  ASSUME PromiseInv, PromiseInv', NEW c \in Clients, NEW r \in Asked, Begin(c, r)
  PROVE  PromiseStep
<1>1. /\ UNCHANGED <<schedules, bindings, failures>> /\ h[c].pc = "idle"
      /\ Busy = {} => met' = {}
      /\ Busy # {} => met \subseteq met'
  BY DEF Begin
<1>2. /\ \A d \in Clients \ {c} : h'[d] = h[d]
      /\ h'[c].pc \in {"put", "check"} /\ h'[c].req = r /\ h'[c].listed = <<>>
  BY BeginsOne DEF PromiseInv, IInv
<1>3. Pending[c] = NoRequest /\ ((\A d \in Clients : Pending[d] = NoRequest) <=> Busy = {})
  BY <1>1, PendingIs DEF PromiseInv, Busy
<1>4. Pending' = [Pending EXCEPT ![c] = r]
  <2> DEFINE P(d) == IF At(d, "bind", {"bus", "busNew"}) THEN [Req(d) EXCEPT !.op = "attach"] ELSE Req(d)
  <2>1. Pending = [d \in Clients |-> P(d)] /\ Pending' = [d \in Clients |-> P(d)']
    BY DEF Pending
  <2>2. \A d \in Clients \ {c} : P(d)' = P(d)
    BY <1>2 DEF At, Req
  <2>3. P(c)' = r
    BY <1>2 DEF At, Req
  <2> HIDE DEF P
  <2> QED BY <2>1, <2>2, <2>3
<1>5. ASSUME NEW b \in Bindings
      PROVE  Shown'[b] = Shown[b] \/ (Shown'[b] = Absent /\ Shown[b].sch \in met' \ met)
  <2>1. \A d \in Clients : b \in Hidden(d)' => d # c /\ d \in Busy /\ b \in Hidden(d)
    <3> SUFFICES ASSUME NEW d \in Clients, b \in Hidden(d)'
                 PROVE  d # c /\ d \in Busy /\ b \in Hidden(d)
      OBVIOUS
    <3>1. b \in DOMAIN h'[d].listed /\ b \notin h'[d].todo /\ h'[d].req.sch \notin met'
      BY DEF Hidden, Req
    <3>2. d # c /\ h'[d] = h[d]
      BY <1>2, <3>1, EmptyListing
    <3>3. d \in Busy
      BY <3>1, <3>2, ListingIsDelete DEF PromiseInv
    <3> QED BY <1>1, <3>1, <3>2, <3>3 DEF Hidden, Req
  <2>2. CASE \E d \in Clients : b \in Hidden(d)'
    <3>1. PICK d \in Clients : b \in Hidden(d)'
      BY <2>2
    <3>2. d # c /\ b \in Hidden(d) /\ h'[d] = h[d]
      BY <1>2, <2>1, <3>1
    <3> QED BY <3>1, <3>2 DEF PromiseInv, ShownOK
  <2>3. CASE \A d \in Clients : b \notin Hidden(d)' /\ b \notin Hidden(d)
    BY <1>1, <2>3 DEF PromiseInv, ShownOK
  <2>4. CASE (\A d \in Clients : b \notin Hidden(d)') /\ \E d \in Clients : b \in Hidden(d)
    <3>1. PICK d \in Clients : b \in Hidden(d)
      BY <2>4
    <3>2. /\ Shown'[b] = Absent /\ Shown[b] = h[d].listed[b] /\ Shown[b].sch = Req(d).sch
          /\ b \in DOMAIN h[d].listed /\ b \notin h[d].todo /\ d \in Busy
      BY <1>1, <2>4, <3>1, HiddenIs DEF PromiseInv, ShownOK
    <3>3. h'[d] = h[d] /\ b \notin Hidden(d)'
      BY <1>1, <1>2, <2>4, <3>2 DEF Busy
    <3>4. Req(d).sch \in met' /\ Req(d).sch \notin met
      BY <3>1, <3>2, <3>3 DEF Hidden, Req
    <3> QED BY <3>2, <3>4
  <2> QED BY <2>2, <2>3, <2>4
<1>6. Promise!TypeOK' /\ r \in Requests
  BY RequestShape DEF PromiseInv
<1> DEFINE with == {Pending[d] : d \in {x \in Clients : Pending[x] # NoRequest /\ Promise!Meets(r, Pending[x])}}
           all == UNION {Promise!Touched(q) : q \in with \cup {r}}
<1>7. met' \subseteq met \cup IF with = {} THEN {} ELSE all
  <2> DEFINE over == {d \in Busy : Overlaps(r, d)}
  <2>1. met' \subseteq met \cup IF over = {} THEN {} ELSE Touches(r) \cup UNION {Reach(d) : d \in over}
    BY DEF Begin, Reach
  <2>2. ASSUME NEW d \in over PROVE Pending[d] \in with /\ Reach(d) \subseteq all
    <3>1. d \in Clients /\ Pending[d] # NoRequest /\ Promise!Meets(r, Pending[d])
      BY PendingIs, MeetsAll DEF PromiseInv, Busy
    <3>2. Pending[d] \in with
      BY <3>1
    <3>3. Promise!Touched(Pending[d]) = Reach(d)
      BY TouchedIs
    <3> HIDE DEF with
    <3> QED BY <3>2, <3>3
  <2>3. Touches(r) \subseteq all
    <3> HIDE DEF with
    <3> QED BY MeetsAll
  <2> HIDE DEF with, all, over
  <2> QED BY <2>1, <2>2, <2>3
<1>8. Promise!Ask(c, r)
  <2> HIDE DEF with, all
  <2>1. /\ Pending[c] = NoRequest /\ Pending' = [Pending EXCEPT ![c] = r]
        /\ IF \A d \in Clients : Pending[d] = NoRequest THEN met' = {} ELSE met \subseteq met'
        /\ \A b \in Bindings : \/ Shown'[b] = Shown[b]
                               \/ Shown'[b] = Absent /\ Shown[b].sch \in met' \ met
        /\ Promise!TypeOK' /\ UNCHANGED <<schedules, failures>>
    BY <1>1, <1>3, <1>4, <1>5, <1>6
  <2> QED BY <1>6, <1>7, <2>1 DEF Promise!Ask, with, all
<1>9. Pending'[c] = r
  <2>1. c \in DOMAIN Pending
    BY DEF Pending
  <2> QED BY <1>4, <2>1
<1> QED BY <1>8, <1>9 DEF PromiseStep, Promise!Next

-----------------------------------------------------------------------------
(* A contested handler writes where it is contested, and nowhere else.       *)
LEMMA ContestedKeeps ==
  ASSUME PromiseInv, PromiseInv', NEW c \in Clients, OneHandler(c), Step(c), Contested(c)
  PROVE  PromiseStep
<1> USE DEF PromiseInv
<1>1. c \in Busy /\ Req(c).sch \in met
  BY BusyShape DEF OneHandler, Busy, Contested
<1>2. Pending[c] # NoRequest /\ Promise!Touched(Pending[c]) \subseteq met
  BY <1>1, PendingIs, TouchedIs DEF Contested, Busy
<1>3. Pending' = Pending \/ Promise!Over(c) \/ (Promise!Asks(c, {"bus", "busNew"}) /\ Promise!HalfOver(c))
  <2>1. CASE h'[c] = Idle
    BY <2>1, PendingStep
  <2>2. CASE h'[c] # Idle /\ At(c, "bind", {"bus", "busNew"})' = At(c, "bind", {"bus", "busNew"})
    BY <2>2, PendingStep
  <2>3. CASE h'[c] # Idle /\ At(c, "bind", {"bus", "busNew"})' /\ ~At(c, "bind", {"bus", "busNew"})
    <3>1. Pending[c] = Req(c) /\ Req(c)' = Req(c)
      BY <2>3, PendingIs DEF OneHandler, Req
    <3> QED BY <2>3, <3>1, PendingStep DEF Promise!Asks, At
  <2>4. CASE h'[c] # Idle /\ ~At(c, "bind", {"bus", "busNew"})' /\ At(c, "bind", {"bus", "busNew"})
    <3>1. PutBinding(c)
      BY <2>4 DEF Step, CheckNew, GetSchedule, PutSchedule, ListBindings, Cascade, DeleteSchedule,
                  CheckNewBinding, GetBinding, DeleteBinding, At
    <3> QED BY <2>4, <3>1 DEF PutBinding, Answer, IInv, ShapeOK
  <2>5. At(c, "bind", {"bus", "busNew"}) \in BOOLEAN /\ At(c, "bind", {"bus", "busNew"})' \in BOOLEAN
    BY DEF At
  <2> QED BY <2>1, <2>2, <2>3, <2>4, <2>5
<1>4. \A s \in Schedules : schedules'[s] # schedules[s] => s \in met
  BY <1>1, OwnWrites
<1>5. ASSUME NEW b \in Bindings, Shown'[b] # Shown[b]
      PROVE  \A x \in {Shown[b], Shown'[b]} \ {Absent} : x.sch \in met
  <2>1. b \notin Hidden(c) /\ b \notin Hidden(c)'
    <3>1. Hidden(c) = {}
      BY <1>1 DEF Hidden
    <3>2. Hidden(c)' = {}
      BY <1>1, IdleHides DEF Hidden, OneHandler, Req
    <3> QED BY <3>1, <3>2
  <2>2. \A d \in Clients : b \notin Hidden(d)
    BY <1>5, <2>1, ShownStep
  <2>3. Shown[b] = bindings[b] /\ Shown'[b] = bindings'[b]
    BY <2>1, <2>2, ShownStep DEF ShownOK
  <2>4. bindings'[b] # Absent => bindings'[b].sch \in met
    BY <1>1, <1>5, <2>3, OwnWrites
  <2>5. bindings[b] # Absent => bindings[b].sch \in met
    <3>1. b \in Names(h[c].req) \/ b \in h[c].todo
      BY <1>5, <2>3, OwnWrites DEF Req
    <3>2. CASE b \in Names(h[c].req)
      BY <3>2, ReachIs DEF Contested
    <3>3. CASE b \in h[c].todo
      <4>1. b \in DOMAIN h[c].listed
        BY <1>1, <3>3, BusyShape
      <4> QED BY <1>1, <4>1, ListingIsDelete DEF MetInv, ListedOK
    <3> QED BY <3>1, <3>2, <3>3
  <2> QED BY <2>3, <2>4, <2>5
<1>6. Promise!Clash(c)
  BY <1>2, <1>3, <1>4, <1>5 DEF Promise!Clash
<1> QED BY <1>6, CarryIs DEF Promise!Carry

-----------------------------------------------------------------------------
(* Of a handler nobody contests: a step that only reads shows nothing, and   *)
(* refuses only for the reason the API gives.                                *)
LEMMA ReadKeeps ==
  ASSUME PromiseInv, PromiseInv', NEW c \in Clients, OneHandler(c), Step(c),
         CheckNew(c) \/ GetSchedule(c) \/ CheckNewBinding(c) \/ GetBinding(c)
  PROVE  PromiseStep
<1> USE DEF PromiseInv, Goto, Answer
<1>1. /\ UNCHANGED <<schedules, bindings, met, failures>>
      /\ h[c].pc \in {"check", "exists"} /\ h'[c].pc \notin {"cascade", "last"}
  <2>1. CASE CheckNew(c) \/ CheckNewBinding(c)
    BY <2>1 DEF IInv, ShapeOK, Handler, CheckNew, CheckNewBinding, At, Idle
  <2>2. CASE GetSchedule(c) \/ GetBinding(c)
    BY <2>2 DEF IInv, ShapeOK, Handler, GetSchedule, GetBinding, At, Idle
  <2> QED BY <2>1, <2>2
<1>2. Hidden(c) = {} /\ Hidden(c)' = {}
  BY <1>1, NothingHidden DEF IInv
<1>3. Shown' = Shown
  BY <1>1, <1>2, NothingShows
<1>4. c \in Busy /\ Pending[c] = Req(c)
  BY <1>1, PendingIs DEF At, Busy
<1>5. CASE h'[c] = Idle
  <2>1. Promise!Over(c)
    BY <1>5, PendingStep
  <2>2. Promise!Refuse(c)
    <3>1. CASE CheckNew(c)
      <4>1. Req(c).op \in {"create", "busNew"} /\ schedules[Req(c).sch] # Absent
        BY <1>5, <3>1 DEF CheckNew, At, IInv, ShapeOK, Idle
      <4> QED BY <1>1, <1>3, <1>4, <2>1, <4>1 DEF Promise!Refuse, Promise!Asks
    <3>2. CASE GetSchedule(c)
      <4>1. /\ Req(c).op \in {"update", "pause", "resume", "delete", "createBinding"}
            /\ schedules[Req(c).sch] = Absent \/ (Req(c).op = "update" /\ Req(c).trig = Bad)
        <5> DEFINE p == CASE Req(c).op = "delete" -> "list"
                          [] Req(c).op = "createBinding" -> "exists"
                          [] OTHER -> "put"
        <5>1. \/ schedules[Req(c).sch] = Absent \/ (Req(c).op = "update" /\ Req(c).trig = Bad)
              \/ h' = [h EXCEPT ![c].copy = schedules[Req(c).sch], ![c].pc = p]
          BY <3>2 DEF GetSchedule
        <5>2. p # "idle"
          OBVIOUS
        <5> HIDE DEF p
        <5> QED BY <1>5, <3>2, <5>1, <5>2 DEF GetSchedule, At, IInv, ShapeOK, Handler, Idle
      <4> QED BY <1>1, <1>3, <1>4, <2>1, <4>1 DEF Promise!Refuse, Promise!Asks
    <3>3. CASE CheckNewBinding(c)
      <4>1. Req(c).op = "createBinding" /\ bindings[Req(c).bnd] # Absent
        BY <1>5, <3>3 DEF CheckNewBinding, At, IInv, ShapeOK, Idle
      <4>2. Shown[Req(c).bnd] = bindings[Req(c).bnd]
        BY <1>4, <4>1, TouchedIs, NamesOf, BusyShape DEF OnBinding
      <4> QED BY <1>1, <1>3, <1>4, <2>1, <4>1, <4>2 DEF Promise!Refuse, Promise!Asks
    <3>4. CASE GetBinding(c)
      <4>1. /\ Req(c).op \in {"updateBinding", "deleteBinding"}
            /\ bindings[Req(c).bnd] = Absent \/ bindings[Req(c).bnd].sch # Req(c).sch
        BY <1>5, <3>4 DEF GetBinding, At, IInv, ShapeOK, Idle
      <4>2. Shown[Req(c).bnd] = bindings[Req(c).bnd]
        BY <1>4, <4>1, TouchedIs, NamesOf, BusyShape DEF OnBinding
      <4> QED BY <1>1, <1>3, <1>4, <2>1, <4>1, <4>2 DEF Promise!Refuse, Promise!Asks, Promise!Bound
    <3> QED BY <3>1, <3>2, <3>3, <3>4
  <2> QED BY <2>2, CarryIs DEF Promise!Carry
<1>6. CASE h'[c] # Idle
  <2>1. At(c, "bind", {"bus", "busNew"})' = FALSE /\ At(c, "bind", {"bus", "busNew"}) = FALSE
    <3>1. h'[c].req.op \notin {"bus", "busNew"} \/ h'[c].pc # "bind"
      <4>1. CASE GetSchedule(c) \/ CheckNewBinding(c) \/ GetBinding(c)
        BY <1>6, <4>1 DEF GetSchedule, CheckNewBinding, GetBinding, At, OneHandler, Req
      <4>2. CASE CheckNew(c)
        BY <1>6, <4>2 DEF CheckNew, IInv, ShapeOK, Handler
      <4> QED BY <4>1, <4>2
    <3> QED BY <1>1, <3>1 DEF At, Req
  <2>2. Pending' = Pending
    BY <1>6, <2>1, PendingStep
  <2> QED BY <1>1, <1>3, <2>2, StillIs DEF Still
<1> QED BY <1>5, <1>6

LEMMA ListingKeeps ==
  ASSUME PromiseInv, PromiseInv', NEW c \in Clients, OneHandler(c), ListBindings(c)
  PROVE  PromiseStep
<1> USE DEF PromiseInv
<1>1. h[c].pc = "list" /\ h'[c].pc \in {"cascade", "last"} /\ UNCHANGED <<schedules, bindings, met, failures>>
  BY ListsOwn DEF ListBindings, At
<1>2. Hidden(c) = {} /\ Hidden(c)' = {}
  BY <1>1, NothingHidden, ListsOwn DEF Hidden
<1>3. Shown' = Shown
  BY <1>1, <1>2, NothingShows
<1>4. Pending' = Pending
  BY <1>1, PendingStep DEF At, Idle
<1> QED BY <1>1, <1>3, <1>4, StillIs DEF Still

(* A binding that a cascade drops is still shown: the delete may yet fail.   *)
LEMMA CascadeKeeps ==
  ASSUME PromiseInv, PromiseInv', NEW c \in Clients, OneHandler(c), ~Contested(c),
         NEW b \in Bindings, Cascade(c, b)
  PROVE  PromiseStep
<1> USE DEF PromiseInv
<1>1. /\ UNCHANGED <<schedules, met, failures>> /\ b \in h[c].todo
      /\ h[c].pc = "cascade" /\ h'[c].pc \in {"cascade", "last"} /\ Req(c)' = Req(c)
      /\ \A a \in Bindings : a # b => bindings'[a] = bindings[a]
      /\ h'[c].listed = h[c].listed /\ h'[c].todo = h[c].todo \ {b}
  <2>1. UNCHANGED <<schedules, met, failures>> /\ h[c].pc = "cascade" /\ b \in h[c].todo
    BY DEF Cascade, At
  <2>2. /\ h'[c].listed = h[c].listed /\ h'[c].todo = h[c].todo \ {b} /\ h'[c].req = h[c].req
        /\ h'[c].pc \in {"cascade", "last"}
    BY DEF Cascade, IInv, ShapeOK, Handler
  <2>3. \A a \in Bindings : a # b => bindings'[a] = bindings[a]
    BY DEF Cascade, IInv, ShapeOK
  <2> QED BY <2>1, <2>2, <2>3 DEF Req
<1>2. b \in DOMAIN h[c].listed /\ c \in Busy /\ Req(c).sch \notin met /\ h[c].listed[b] = bindings[b]
      /\ b \notin Hidden(c) /\ b \in Holds(c)
  <2>1. c \in Busy /\ b \in DOMAIN h[c].listed
    BY <1>1, BusyShape DEF Busy
  <2>2. Req(c).sch \notin met
    BY <2>1, ListingIsDelete DEF Contested
  <2> QED BY <1>1, <2>1, <2>2 DEF MetInv, ListedOK, Hidden, Holds
<1>3. Shown'[b] = Shown[b]
  <2>1. b \in Hidden(c)'
    BY <1>1, <1>2 DEF Hidden, Req
  <2>2. Shown'[b] = h[c].listed[b]
    BY <1>1, <2>1, ShownStep
  <2>3. \A d \in Clients : b \notin Hidden(d)
    BY <1>2, HeldIsShown
  <2> QED BY <1>2, <2>2, <2>3 DEF ShownOK
<1>4. ASSUME NEW a \in Bindings, a # b PROVE Shown'[a] = Shown[a]
  <2>1. (a \in Hidden(c)') = (a \in Hidden(c))
    BY <1>1, <1>4 DEF Hidden, Req
  <2>2. CASE a \in Hidden(c)
    BY <1>1, <2>1, <2>2, ShownStep
  <2>3. CASE a \notin Hidden(c)
    BY <1>1, <1>4, <2>1, <2>3, ShownStep
  <2> QED BY <2>2, <2>3
<1>5. Shown' = Shown
  BY <1>3, <1>4, ShownSame
<1>6. Pending' = Pending
  BY <1>1, PendingStep DEF At, Idle
<1> QED BY <1>1, <1>5, <1>6, StillIs DEF Still

-----------------------------------------------------------------------------
(* What a step that ends a delete shows: all it had hidden is gone.          *)
LEMMA OwningUp ==
  ASSUME PromiseInv, PromiseInv', NEW c \in Clients, OneHandler(c), h'[c] = Idle,
         bindings' = bindings
  PROVE  /\ Promise!Drop(Hidden(c)) /\ Hidden(c) \subseteq Promise!Of(Req(c).sch)
         /\ Hidden(c) = {} => Shown' = Shown
<1> DEFINE f == [b \in Bindings |-> IF b \in Hidden(c) THEN Absent ELSE Shown[b]]
           g == [b \in Bindings |-> Shown'[b]]
<1>1. Shown' = g
  BY DEF Shown
<1>2. ASSUME NEW b \in Bindings PROVE Shown'[b] = IF b \in Hidden(c) THEN Absent ELSE Shown[b]
  <2>1. b \notin Hidden(c)'
    BY IdleHides
  <2>2. b \in Hidden(c) => bindings[b] = Absent
    BY DEF PromiseInv, ShownOK
  <2> QED BY <2>1, <2>2, ShownStep DEF PromiseInv
<1>3. g = f
  BY <1>2
<1>4. ASSUME NEW b \in Hidden(c) PROVE b \in Promise!Of(Req(c).sch)
  BY HiddenIs, AbsentIsNone DEF PromiseInv, ShownOK, Promise!Of
<1>5. Hidden(c) = {} => Shown' = Shown
  BY <1>2, ShownSame
<1> QED BY <1>1, <1>3, <1>4, <1>5 DEF Promise!Drop

(* A call that raises ends its handler; a delete is then cut short.          *)
LEMMA FailKeeps ==
  ASSUME PromiseInv, PromiseInv', NEW c \in Clients, OneHandler(c), Fail(c)
  PROVE  PromiseStep
<1>1. UNCHANGED <<schedules, bindings, met>> /\ h'[c] = Idle /\ failures' = failures + 1 /\ c \in Busy
  BY DEF Fail, Answer, PromiseInv, IInv, ShapeOK, Busy
<1>2. Promise!Over(c) /\ Pending[c] # NoRequest
  BY <1>1, PendingStep, PendingIs DEF PromiseInv, Busy
<1>3. Shown' = Shown \/ (Promise!Asks(c, {"delete"}) /\ Promise!Drop(Hidden(c)))
  <2>1. CASE Hidden(c) = {}
    BY <1>1, <2>1, OwningUp
  <2>2. CASE Hidden(c) # {}
    <3>1. Req(c).op = "delete"
      BY <2>2, HiddenIs, ListingIsDelete DEF PromiseInv
    <3>2. Pending[c] = Req(c)
      BY <3>1, PendingIs DEF At, PromiseInv
    <3> QED BY <1>1, <3>1, <3>2, OwningUp DEF Promise!Asks
  <2> QED BY <2>1, <2>2
<1>4. Hidden(c) \in SUBSET Promise!Of(Req(c).sch) /\ Pending[c].sch = Req(c).sch
  BY <1>1, OwningUp, PendingIs DEF PromiseInv
<1>5. Promise!Fault(c)
  <2>1. Shown' = Shown \/ \E S \in SUBSET Promise!Of(Pending[c].sch) :
                            Promise!Asks(c, {"delete"}) /\ Promise!Drop(S)
    BY <1>3, <1>4
  <2> QED BY <1>1, <1>2, <2>1 DEF Promise!Fault
<1> QED BY <1>5 DEF PromiseStep, Promise!Next

(* Its last step is the whole of a delete: all bindings go with the schedule. *)
LEMMA DeleteKeeps ==
  ASSUME PromiseInv, PromiseInv', NEW c \in Clients, OneHandler(c), DeleteSchedule(c),
         ~Contested(c), Fresh(c)
  PROVE  PromiseStep
<1> DEFINE s == Req(c).sch
<1>1. /\ schedules' = [schedules EXCEPT ![s] = Absent] /\ bindings' = bindings /\ c \in Busy
      /\ h'[c] = Idle /\ h[c].pc = "last" /\ Req(c).op = "delete" /\ Step(c)
  BY DEF DeleteSchedule, At, Answer, PromiseInv, IInv, ShapeOK, Busy, Step
<1>2. schedules[s] # Absent /\ h[c].todo = {} /\ BindingsFor(s) = {}
  BY <1>1 DEF Fresh, NeedsSchedule, PromiseInv, IInv, HandlersOK, HandlerOK
<1>3. Pending[c] = Req(c) /\ Promise!Over(c)
  BY <1>1, PendingIs, PendingStep DEF At, PromiseInv
<1>4. Hidden(c) = Promise!Of(s)
  <2>1. ASSUME NEW b \in Promise!Of(s), b \notin Hidden(c) PROVE FALSE
    <3>1. b \in Bindings /\ Shown[b] # Absent /\ Shown[b].sch = s
      BY <2>1 DEF Promise!Of
    <3>2. ASSUME NEW d \in Clients, b \in Hidden(d) PROVE FALSE
      <4>1. d # c /\ d \in Busy /\ Req(d).sch = s
        BY <2>1, <3>1, <3>2, HiddenIs DEF PromiseInv, ShownOK
      <4>2. s \in Reach(c) /\ s \in Reach(d)
        BY <1>1, <4>1, BusyShape DEF PromiseInv
      <4> QED BY <1>1, <4>1, <4>2 DEF PromiseInv, MetInv, NearMet, Near
    <3>3. Shown[b] = bindings[b]
      BY <3>1, <3>2 DEF PromiseInv, ShownOK
    <3> QED BY <1>2, <3>1, <3>3 DEF BindingsFor
  <2> QED BY <1>1, <2>1, OwningUp
<1>5. Promise!Cancel(c)
  BY <1>1, <1>2, <1>3, <1>4, OwningUp DEF Promise!Cancel, Promise!Asks
<1> QED BY <1>1, <1>5, CarryIs DEF Promise!Carry

-----------------------------------------------------------------------------
(* What a handler writes back is what it has read, changed in one field.     *)
LEMMA PutKeeps ==
  ASSUME PromiseInv, PromiseInv', NEW c \in Clients, OneHandler(c), PutSchedule(c), Fresh(c)
  PROVE  PromiseStep
<1> DEFINE r == Req(c)
           s == Req(c).sch
           v == NewSchedule(Req(c), h[c].copy)
<1> USE DEF PromiseInv
<1>1. /\ schedules' = [schedules EXCEPT ![s] = v] /\ bindings' = bindings
      /\ h[c].pc = "put" /\ Step(c) /\ c \in Busy
      /\ r.op \in {"create", "bus", "busNew"} \cup Rereads
  BY DEF PutSchedule, At, Rereads, Step, Busy
<1>2. IF r.op \in {"bus", "busNew"} THEN h'[c].pc = "bind" /\ h'[c].req = h[c].req ELSE h'[c] = Idle
  BY DEF PutSchedule, Goto, Answer, IInv, ShapeOK, Handler
<1>3. Shown' = Shown
  <2>1. Hidden(c) = {} /\ Hidden(c)' = {}
    BY <1>1, <1>2, NothingHidden DEF IInv, Idle
  <2> QED BY <1>1, <2>1, NothingShows
<1>4. Pending[c] = r /\ IF r.op \in {"bus", "busNew"} THEN Promise!HalfOver(c) ELSE Promise!Over(c)
  BY <1>1, <1>2, PendingIs, PendingStep DEF At, Req
<1>5. CASE r.op \in {"create", "bus", "busNew"}
  <2>1. v = r.new
    BY <1>5 DEF NewSchedule
  <2>2. r.op = "bus" \/ schedules[s] = Absent
    BY <1>1, <1>5 DEF Fresh, At
  <2>3. Promise!Register(c)
    BY <1>1, <1>3, <1>4, <1>5, <2>1, <2>2 DEF Promise!Register, Promise!Asks
  <2> QED BY <1>1, <2>3, CarryIs DEF Promise!Carry
<1>6. CASE r.op \in Rereads
  <2>1. /\ schedules[s] = h[c].copy /\ schedules[s] \in Schedule /\ schedules[s] # Absent
        /\ r.op = "update" => r.trig # Bad
    BY <1>1, <1>6, AbsentIsNone DEF Fresh, IInv, HandlersOK, HandlerOK, At
  <2>2. v = Promise!Changed(r, schedules[s])
    <3>1. CASE r.op = "update"
      BY <2>1, <3>1 DEF NewSchedule, Promise!Changed
    <3>2. CASE r.op \in {"pause", "resume"}
      BY <2>1, <3>2 DEF NewSchedule, Promise!Changed, Schedule
    <3> QED BY <1>6, <3>1, <3>2 DEF Rereads
  <2>3. schedules' = [schedules EXCEPT ![s] = Promise!Changed(r, @)]
    BY <1>1, <2>2
  <2>4. r.op \in {"update", "pause", "resume"} /\ r.op \notin {"bus", "busNew"}
    BY <1>6 DEF Rereads
  <2>5. Promise!Change(c)
    BY <1>3, <1>4, <2>1, <2>3, <2>4 DEF Promise!Change, Promise!Asks
  <2> QED BY <1>1, <2>5, CarryIs DEF Promise!Carry
<1> QED BY <1>1, <1>5, <1>6

LEMMA ShownExcept ==
  ASSUME NEW b \in Bindings, NEW v, Shown'[b] = v,
         \A a \in Bindings : a # b => Shown'[a] = Shown[a]
  PROVE  Shown' = [Shown EXCEPT ![b] = v]
<1> DEFINE f == [a \in Bindings |-> Shown[a]]
           g == [a \in Bindings |-> Shown'[a]]
<1>1. Shown = f /\ Shown' = g
  BY DEF Shown
<1>2. g = [f EXCEPT ![b] = v]
  OBVIOUS
<1> QED BY <1>1, <1>2

(* A binding a handler names is shown as it is: no delete has it in hand.    *)
LEMMA NamedIsShown ==
  ASSUME PromiseInv, PromiseInv', NEW c \in Clients, OneHandler(c), h'[c] = Idle,
         h[c].pc = "bind", NEW v, bindings' = [bindings EXCEPT ![Req(c).bnd] = v]
  PROVE  /\ Req(c).bnd \in Bindings /\ Shown[Req(c).bnd] = bindings[Req(c).bnd]
         /\ Shown' = [Shown EXCEPT ![Req(c).bnd] = v] /\ Promise!Over(c)
<1> DEFINE b == Req(c).bnd
<1> USE DEF PromiseInv
<1>1. Hidden(c) = {} /\ Hidden(c)' = {} /\ c \in Busy
  BY NothingHidden, IdleHides DEF Busy
<1>2. b \in Names(Req(c))
  <2>1. Req(c) \in Asked /\ Req(c).op \in OnBinding
    BY <1>1, BusyShape DEF HandlerOK, OpsAt, OnBinding
  <2> QED BY <2>1, NamesOf
<1>3. b \in Bindings /\ b \in Holds(c) /\ Shown[b] = bindings[b]
  BY <1>1, <1>2, TouchedIs DEF Holds
<1>4. \A d \in Clients : b \notin Hidden(d)
  BY <1>1, <1>3, HeldIsShown
<1>5. bindings'[b] = v /\ \A a \in Bindings : a # b => bindings'[a] = bindings[a]
  BY <1>3 DEF IInv, ShapeOK
<1>6. Shown'[b] = v /\ \A a \in Bindings : a # b => Shown'[a] = Shown[a]
  BY <1>1, <1>3, <1>4, <1>5, ShownStep
<1> QED BY <1>3, <1>6, ShownExcept, PendingStep

LEMMA PutBindingKeeps ==
  ASSUME PromiseInv, PromiseInv', NEW c \in Clients, OneHandler(c), PutBinding(c), Fresh(c)
  PROVE  PromiseStep
<1> DEFINE r == Req(c)
           b == Req(c).bnd
           v == NewBinding(Req(c), h[c].copy)
<1> USE DEF PromiseInv
<1>1. /\ bindings' = [bindings EXCEPT ![b] = v] /\ schedules' = schedules
      /\ h'[c] = Idle /\ h[c].pc = "bind" /\ Step(c)
      /\ r.op \in {"createBinding", "updateBinding", "bus", "busNew"}
  BY DEF PutBinding, At, Answer, IInv, ShapeOK, Step
<1>2. /\ b \in Bindings /\ Shown[b] = bindings[b]
      /\ Shown' = [Shown EXCEPT ![b] = v] /\ Promise!Over(c)
  BY <1>1, NamedIsShown
<1>3. CASE r.op = "updateBinding"
  <2>1. /\ h[c].copy = bindings[b] /\ h[c].copy \in Binding /\ h[c].copy.sch = r.sch
        /\ Pending[c] = r
    BY <1>1, <1>3, PendingIs DEF Fresh, At, IInv, HandlersOK, HandlerOK
  <2>2. Shown' = IF r.data = Keep THEN Shown ELSE [Shown EXCEPT ![b].data = r.data]
    <3>1. CASE r.data = Keep
      <4>1. v = Shown[b]
        BY <1>2, <1>3, <2>1, <3>1 DEF NewBinding
      <4> QED BY <1>2, <3>1, <4>1 DEF Shown
    <3>2. CASE r.data # Keep
      <4>1. v = [Shown[b] EXCEPT !.data = r.data]
        BY <1>2, <1>3, <2>1, <3>2 DEF NewBinding, Binding
      <4> QED BY <1>2, <3>2, <4>1
    <3> QED BY <3>1, <3>2
  <2>3. Promise!Rewrite(c)
    BY <1>1, <1>2, <1>3, <2>1, <2>2, AbsentIsNone DEF Promise!Rewrite, Promise!Asks, Promise!Bound
  <2> QED BY <1>1, <2>3, CarryIs DEF Promise!Carry
<1>4. CASE r.op \in {"createBinding", "bus", "busNew"}
  <2>1. v = [sch |-> r.sch, data |-> r.data]
    BY <1>4 DEF NewBinding
  <2>2. schedules[r.sch] # Absent /\ (r.op = "createBinding" => bindings[b] = Absent)
    BY <1>1, <1>4 DEF Fresh, NeedsSchedule, At
  <2>3. /\ Pending[c].sch = r.sch /\ Pending[c].bnd = b /\ Pending[c].data = r.data
        /\ Pending[c].op = IF r.op = "createBinding" THEN r.op ELSE "attach"
    BY <1>1, <1>4, PendingIs DEF At
  <2>4. Promise!Attach(c)
    BY <1>1, <1>2, <1>4, <2>1, <2>2, <2>3 DEF Promise!Attach, Promise!Asks
  <2> QED BY <1>1, <2>4, CarryIs DEF Promise!Carry
<1> QED BY <1>1, <1>3, <1>4

LEMMA DeleteBindingKeeps ==
  ASSUME PromiseInv, PromiseInv', NEW c \in Clients, OneHandler(c), DeleteBinding(c), Fresh(c)
  PROVE  PromiseStep
<1> DEFINE b == Req(c).bnd
<1> USE DEF PromiseInv
<1>1. /\ bindings' = [bindings EXCEPT ![b] = Absent] /\ schedules' = schedules
      /\ h'[c] = Idle /\ h[c].pc = "bind" /\ Req(c).op = "deleteBinding" /\ Step(c)
  BY DEF DeleteBinding, At, Answer, IInv, ShapeOK, Step
<1>2. /\ b \in Bindings /\ Shown[b] = bindings[b]
      /\ Shown' = [Shown EXCEPT ![b] = Absent] /\ Promise!Over(c)
  BY <1>1, NamedIsShown
<1>3. bindings[b] # Absent /\ bindings[b].sch = Req(c).sch /\ Pending[c] = Req(c)
  <2>1. h[c].copy = bindings[b] /\ h[c].copy \in Binding /\ h[c].copy.sch = Req(c).sch
    BY <1>1 DEF IInv, HandlersOK, HandlerOK, Fresh, At
  <2>2. ~At(c, "bind", {"bus", "busNew"})
    BY <1>1 DEF At
  <2> QED BY <2>1, <2>2, AbsentIsNone, PendingIs
<1>4. Promise!Detach(c)
  BY <1>1, <1>2, <1>3 DEF Promise!Detach, Promise!Asks, Promise!Bound
<1> QED BY <1>1, <1>4, CarryIs DEF Promise!Carry

-----------------------------------------------------------------------------
(* The promise of the API, kept by its handlers as they are, with nothing to *)
(* keep them apart (api.py's schedule and binding routes, ingress.py's       *)
(* handle_request): a request that overlaps no other does at once what it    *)
(* asks or is refused for its reason, a failing delete loses bindings only,  *)
(* and overlapping requests harm no schedule but those they contest.         *)
THEOREM HandlersKeepPromise == Spec => KeepsPromise
<1>1. Init => Promise!Init
  <2> SUFFICES ASSUME Init PROVE Promise!Init
    OBVIOUS
  <2>1. Shown = [b \in Bindings |-> Absent]
    <3> DEFINE f == [b \in Bindings |-> Shown[b]]
    <3>1. Shown = f
      BY DEF Shown
    <3>2. \A b \in Bindings : Shown[b] = Absent
      BY EmptyListing DEF Init, Shown, Hidden, Idle
    <3> QED BY <3>1, <3>2
  <2>2. Pending = [c \in Clients |-> NoRequest]
    BY DEF Init, Pending, At, Req, Idle
  <2> QED BY <2>1, <2>2 DEF Init, Promise!Init
<1>2. PromiseInv /\ PromiseInv' /\ [Next]_vars => [Promise!Next]_Promise!vars
  <2> SUFFICES ASSUME PromiseInv, PromiseInv', [Next]_vars PROVE PromiseStep
    BY DEF PromiseStep
  <2>1. ASSUME NEW c \in Clients, Step(c) PROVE PromiseStep
    <3>1. OneHandler(c) /\ (Contested(c) \/ Fresh(c))
      BY <2>1, StepsOne DEF PromiseInv, IInv, MetInv, OneHandler, Busy
    <3>2. CASE CheckNew(c) \/ GetSchedule(c) \/ CheckNewBinding(c) \/ GetBinding(c)
      BY <2>1, <3>1, <3>2, ReadKeeps
    <3>3. ASSUME NEW b \in Bindings, Cascade(c, b), ~Contested(c) PROVE PromiseStep
      BY <3>1, <3>3, CascadeKeeps
    <3> QED BY <2>1, <3>1, <3>2, <3>3, ListingKeeps, ContestedKeeps, DeleteKeeps, PutKeeps,
               PutBindingKeeps, DeleteBindingKeeps DEF Step
  <2>2. ASSUME NEW c \in Clients, Fail(c) PROVE PromiseStep
    BY <2>2, StepsOne, FailKeeps DEF PromiseInv, IInv
  <2>3. ASSUME NEW c \in Clients, NEW r \in Asked, Begin(c, r) PROVE PromiseStep
    BY <2>3, BeginKeeps
  <2>4. CASE UNCHANGED vars
    <3>1. Shown' = Shown /\ Pending' = Pending
      BY <2>4 DEF vars, Shown, Hidden, Pending, At, Req
    <3> QED BY <2>4, <3>1, StillIs DEF vars, Still
  <2> QED BY <2>1, <2>2, <2>3, <2>4 DEF Next
<1> QED BY <1>1, <1>2, Undisturbed, PTL DEF Spec, KeepsPromise, Promise!Spec
=============================================================================

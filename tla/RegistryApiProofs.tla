-------------------------- MODULE RegistryApiProofs --------------------------
(* What holds of RegistryApi for any schedules, bindings and requests, any    *)
(* number of handlers at once and of failing calls.                           *)
EXTENDS RegistryApi, TLAPS

(* The types of a handler's locals.                                          *)
Listings == {<<>>} \cup UNION {[S -> Binding] : S \in SUBSET Bindings}
Handler ==
  [pc : Pcs, req : Asked \cup {NoRequest}, copy : Schedule \cup Binding \cup {Absent},
   listed : Listings, todo : SUBSET Bindings]

ShapeOK ==
  /\ schedules \in [Schedules -> Schedule \cup {Absent}]
  /\ bindings \in [Bindings -> Binding \cup {Absent}]
  /\ h \in [Clients -> Handler]
  /\ raced \subseteq Schedules /\ met \subseteq Schedules /\ failures \in Nat

(* Which requests come to which step, and what they hold there.              *)
Rereads == {"update", "pause", "resume"}
OpsAt ==
  [idle |-> {"none"},
   check |-> {"create", "busNew", "delete", "createBinding", "updateBinding", "deleteBinding"}
             \cup Rereads,
   list |-> {"delete"}, cascade |-> {"delete"}, last |-> {"delete"},
   exists |-> {"createBinding"}, put |-> {"create", "bus", "busNew"} \cup Rereads,
   bind |-> {"createBinding", "updateBinding", "deleteBinding", "bus", "busNew"}]

HandlerOK(c) ==
  /\ Req(c).op \in OpsAt[h[c].pc]
  /\ At(c, "put", {"update"}) => Req(c).trig # Bad
  /\ At(c, "put", Rereads) => h[c].copy \in Schedule
  /\ At(c, "bind", {"updateBinding", "deleteBinding"}) =>
       h[c].copy \in Binding /\ h[c].copy.sch = Req(c).sch
  /\ h[c].pc \notin {"cascade", "last"} => h[c].listed = <<>>
  /\ h[c].todo \subseteq DOMAIN h[c].listed
  /\ (h[c].pc = "cascade") = (h[c].todo # {})
  /\ \A b \in DOMAIN h[c].listed : h[c].listed[b].sch = Req(c).sch
HandlersOK == \A c \in Clients : HandlerOK(c)

(* A delete and another handler on one schedule have raced.                  *)
OverlapsRaced ==
  \A c, d \in Busy : c # d /\ Req(c).sch = Req(d).sch /\ Req(c).op = "delete"
                       => Req(c).sch \in raced

(* A handler that has found its schedule, or a binding on it, still has one. *)
Found(c) == h[c].pc \in {"list", "cascade", "last", "exists", "bind"} \/ At(c, "put", Rereads)
FoundStays ==
  \A c \in Clients : Found(c) => schedules[Req(c).sch] # Absent \/ Req(c).sch \in raced

(* A cascade has every binding of its schedule in hand.                      *)
CascadeWhole ==
  \A c \in Clients, b \in Bindings :
    h[c].pc \in {"cascade", "last"} /\ bindings[b] # Absent /\ bindings[b].sch = Req(c).sch
      => b \in h[c].todo \/ Req(c).sch \in raced

IInv == /\ ShapeOK /\ HandlersOK
        /\ OverlapsRaced /\ FoundStays /\ CascadeWhole /\ OnlyRacesOrphan

-----------------------------------------------------------------------------
(* What a request is made of.                                                *)
OnBinding == {"bus", "busNew", "createBinding", "updateBinding", "deleteBinding"}

LEMMA RequestShape ==
  ASSUME NEW r \in Asked
  PROVE  /\ r \in Requests /\ r # NoRequest /\ r.op # "none" /\ r.sch \in Schedules
         /\ r.op \in OpsAt.check \cup {"bus"}
         /\ r.op \in OnBinding => r.bnd \in Bindings /\ "bnd" \in DOMAIN r
         /\ r.op \notin OnBinding => "bnd" \notin DOMAIN r
         /\ r.op \in {"create", "bus", "busNew"} => r.new \in Schedule
         /\ r.op = "update" => r.trig \in Triggers \cup {Keep, Bad}
         /\ r.op \in {"bus", "busNew", "createBinding"} => r.data \in Data
         /\ r.op = "updateBinding" => r.data \in Data \cup {Keep}
<1>1. r \in Requests
  BY ConstantsAssumption
<1>2. /\ r.op # "none" /\ r.sch \in Schedules /\ r.op \in OpsAt.check \cup {"bus"}
      /\ r.op \in OnBinding => r.bnd \in Bindings /\ "bnd" \in DOMAIN r
      /\ r.op \notin OnBinding => "bnd" \notin DOMAIN r
      /\ r.op \in {"create", "bus", "busNew"} => r.new \in Schedule
      /\ r.op = "update" => r.trig \in Triggers \cup {Keep, Bad}
      /\ r.op \in {"bus", "busNew", "createBinding"} => r.data \in Data
      /\ r.op = "updateBinding" => r.data \in Data \cup {Keep}
  BY <1>1 DEF Requests, OnBinding, OpsAt, Rereads
<1> QED BY <1>1, <1>2 DEF NoRequest

LEMMA NamesOf ==
  ASSUME NEW r \in Asked
  PROVE  /\ r.op \in OnBinding => Names(r) = {r.bnd}
         /\ r.op \notin OnBinding => Names(r) = {}
         /\ Names(r) \subseteq Bindings
BY RequestShape DEF Names

(* A running handler has a request, an idle one has none.                    *)
LEMMA Running ==
  ASSUME ShapeOK, HandlersOK, NEW c \in Clients
  PROVE  /\ h[c].pc # "idle" => Req(c) \in Asked
         /\ h[c].pc = "idle" => Req(c) = NoRequest
<1>1. Req(c) \in Asked \cup {NoRequest} /\ h[c].pc \in Pcs /\ Req(c).op \in OpsAt[h[c].pc]
  BY DEF ShapeOK, Handler, HandlersOK, HandlerOK, Req
<1>2. h[c].pc # "idle" => Req(c).op # "none"
  BY <1>1 DEF OpsAt, Rereads, Pcs
<1>3. h[c].pc = "idle" => Req(c).op = "none"
  BY <1>1 DEF OpsAt
<1> QED BY <1>1, <1>2, <1>3, RequestShape DEF NoRequest

LEMMA IdleType == Idle \in Handler
BY DEF Idle, Handler, Listings, Pcs, NoRequest

LEMMA EmptyListing == DOMAIN <<>> = {}
OBVIOUS

LEMMA ListingType ==
  ASSUME NEW c \in Clients, h[c].listed \in Listings
  PROVE  /\ DOMAIN h[c].listed \subseteq Bindings
         /\ \A b \in DOMAIN h[c].listed : h[c].listed[b] \in Binding
BY EmptyListing DEF Listings

LEMMA AbsentIsNone == Absent \notin Schedule /\ Absent \notin Binding
BY ConstantsAssumption DEF Schedule, Binding

-----------------------------------------------------------------------------
LEMMA InitInv == Init => IInv
<1> SUFFICES ASSUME Init PROVE IInv
  OBVIOUS
<1>1. ShapeOK
  BY IdleType DEF Init, ShapeOK
<1>2. HandlersOK
  BY EmptyListing DEF Init, HandlersOK, HandlerOK, OpsAt, At, Req, Idle, NoRequest, Rereads
<1>3. Busy = {} /\ raced = {}
  BY DEF Init, Busy, Idle
<1>4. FoundStays /\ CascadeWhole /\ OnlyRacesOrphan
  BY DEF Init, FoundStays, Found, CascadeWhole, OnlyRacesOrphan, Orphan, At, Idle
<1> QED BY <1>1, <1>2, <1>3, <1>4 DEF IInv, OverlapsRaced

(* Every step is one handler's: it ends, goes on with its request, or begins. *)
OneHandler(c) ==
  /\ raced' = raced /\ met' = met /\ h[c].pc # "idle"
  /\ \A d \in Clients \ {c} : h'[d] = h[d]
  /\ h'[c] = Idle \/ (h'[c].req = h[c].req /\ h'[c].pc # "idle")

LEMMA StepsOne ==
  ASSUME ShapeOK, NEW c \in Clients, Step(c) \/ Fail(c)
  PROVE  OneHandler(c)
<1> USE DEF OneHandler, ShapeOK, Handler, Goto, Answer, At, Req
<1>1. CASE Fail(c)
  BY <1>1 DEF Fail
<1>2. CASE CheckNew(c) \/ GetSchedule(c) \/ CheckNewBinding(c) \/ GetBinding(c)
  BY <1>2 DEF CheckNew, GetSchedule, CheckNewBinding, GetBinding
<1>3. CASE PutSchedule(c) \/ DeleteSchedule(c) \/ PutBinding(c) \/ DeleteBinding(c)
  BY <1>3 DEF PutSchedule, DeleteSchedule, PutBinding, DeleteBinding
<1>4. CASE ListBindings(c)
  BY <1>4 DEF ListBindings
<1>5. ASSUME NEW b \in Bindings, Cascade(c, b) PROVE OneHandler(c)
  BY <1>5 DEF Cascade
<1> QED BY <1>1, <1>2, <1>3, <1>4, <1>5 DEF Step

LEMMA BeginsOne ==
  ASSUME ShapeOK, NEW c \in Clients, NEW r \in Asked, Begin(c, r)
  PROVE  /\ raced \subseteq raced' /\ h[c].pc = "idle"
         /\ \A d \in Clients \ {c} : h'[d] = h[d]
         /\ h'[c].pc = (IF r.op = "bus" THEN "put" ELSE "check") /\ h'[c].req = r
         /\ h'[c].copy = Absent /\ h'[c].listed = <<>> /\ h'[c].todo = {}
         /\ h' \in [Clients -> Handler]
BY DEF Begin, ShapeOK, Handler, Idle, Listings, Pcs

-----------------------------------------------------------------------------
LEMMA NewScheduleType ==
  ASSUME ShapeOK, HandlersOK, NEW c \in Clients, PutSchedule(c)
  PROVE  /\ NewSchedule(Req(c), h[c].copy) \in Schedule
         /\ NewSchedule(Req(c), h[c].copy) # Absent
<1>1. Req(c) \in Asked /\ HandlerOK(c) /\ h[c].pc = "put"
  BY Running DEF PutSchedule, At, HandlersOK
<1>2. CASE Req(c).op \in {"create", "bus", "busNew"}
  BY <1>1, <1>2, RequestShape, AbsentIsNone DEF NewSchedule
<1>3. CASE Req(c).op \in Rereads
  <2>1. h[c].copy \in Schedule /\ (Req(c).op = "update" => Req(c).trig \in Triggers \cup {Keep})
    BY <1>1, <1>3, RequestShape DEF HandlerOK, At, Rereads
  <2> QED BY <1>3, <2>1, AbsentIsNone DEF NewSchedule, Rereads, Schedule
<1> QED BY <1>2, <1>3 DEF PutSchedule, At, Rereads

LEMMA NewBindingType ==
  ASSUME ShapeOK, HandlersOK, NEW c \in Clients, PutBinding(c)
  PROVE  /\ NewBinding(Req(c), h[c].copy) \in Binding
         /\ NewBinding(Req(c), h[c].copy) # Absent
         /\ NewBinding(Req(c), h[c].copy).sch = Req(c).sch
         /\ Req(c) \in Asked /\ Req(c).op \in OnBinding
<1>1. Req(c) \in Asked /\ HandlerOK(c) /\ h[c].pc = "bind"
  BY Running DEF PutBinding, At, HandlersOK
<1>2. CASE Req(c).op = "updateBinding" /\ Req(c).data = Keep
  BY <1>1, <1>2, AbsentIsNone DEF NewBinding, HandlerOK, At, OnBinding
<1>3. CASE ~(Req(c).op = "updateBinding" /\ Req(c).data = Keep)
  <2>1. Req(c).data \in Data /\ Req(c).sch \in Schedules /\ Req(c).op \in OnBinding
    BY <1>1, <1>3, RequestShape DEF PutBinding, At, OnBinding
  <2> QED BY <1>1, <1>3, <2>1, AbsentIsNone DEF NewBinding, Binding
<1> QED BY <1>2, <1>3

LEMMA ShapeStep ==
  ASSUME ShapeOK, HandlersOK, NEW c \in Clients, Step(c) \/ Fail(c)
  PROVE  ShapeOK'
<1> USE DEF Goto, Answer, At
<1>1. CASE Fail(c)
  BY <1>1, IdleType DEF Fail, ShapeOK
<1>2. CASE CheckNew(c) \/ CheckNewBinding(c)
  <2>1. h' \in [Clients -> Handler]
    BY <1>2, IdleType DEF CheckNew, CheckNewBinding, ShapeOK, Handler, Pcs
  <2> QED BY <1>2, <2>1 DEF CheckNew, CheckNewBinding, ShapeOK
<1>3. CASE GetSchedule(c)
  <2>1. Req(c) \in Asked
    BY <1>3, Running DEF GetSchedule
  <2>2. schedules[Req(c).sch] # Absent => schedules[Req(c).sch] \in Schedule
    BY <2>1, RequestShape DEF ShapeOK
  <2>3. h' \in [Clients -> Handler]
    BY <1>3, <2>2, IdleType DEF GetSchedule, ShapeOK, Handler, Pcs
  <2> QED BY <1>3, <2>3 DEF GetSchedule, ShapeOK
<1>4. CASE GetBinding(c)
  <2>1. Req(c) \in Asked
    BY <1>4, Running DEF GetBinding
  <2>2. Req(c).bnd \in Bindings
    BY <1>4, <2>1, RequestShape DEF GetBinding, OnBinding
  <2>3. h' \in [Clients -> Handler]
    BY <1>4, <2>2, IdleType DEF GetBinding, ShapeOK, Handler, Pcs
  <2> QED BY <1>4, <2>3 DEF GetBinding, ShapeOK
<1>5. CASE PutSchedule(c)
  <2>1. h' \in [Clients -> Handler]
    BY <1>5, IdleType DEF PutSchedule, ShapeOK, Handler, Pcs
  <2>2. schedules' \in [Schedules -> Schedule \cup {Absent}]
    BY <1>5, NewScheduleType DEF PutSchedule, ShapeOK
  <2> QED BY <1>5, <2>1, <2>2 DEF PutSchedule, ShapeOK
<1>6. CASE ListBindings(c)
  <2>1. [b \in BindingsFor(Req(c).sch) |-> bindings[b]] \in [BindingsFor(Req(c).sch) -> Binding]
    BY DEF BindingsFor, ShapeOK
  <2>2. [b \in BindingsFor(Req(c).sch) |-> bindings[b]] \in Listings
    BY <2>1 DEF Listings, BindingsFor
  <2>3. BindingsFor(Req(c).sch) \in SUBSET Bindings
    BY DEF BindingsFor
  <2>4. h' \in [Clients -> Handler]
    <3> DEFINE S == BindingsFor(Req(c).sch)
               L == [b \in S |-> bindings[b]]
    <3>1. h' = [h EXCEPT ![c].listed = L, ![c].todo = S,
                         ![c].pc = IF S = {} THEN "last" ELSE "cascade"]
      BY <1>6 DEF ListBindings
    <3>2. L \in Listings /\ S \in SUBSET Bindings
      BY <2>2, <2>3
    <3> HIDE DEF S, L
    <3> DEFINE x == [h[c] EXCEPT !.listed = L, !.todo = S,
                                 !.pc = IF S = {} THEN "last" ELSE "cascade"]
    <3>3. x \in Handler
      BY <3>2 DEF ShapeOK, Handler, Pcs
    <3>4. h' = [h EXCEPT ![c] = x]
      BY <3>1 DEF ShapeOK
    <3> QED BY <3>3, <3>4 DEF ShapeOK
  <2> QED BY <1>6, <2>4 DEF ListBindings, ShapeOK
<1>7. ASSUME NEW b \in Bindings, Cascade(c, b) PROVE ShapeOK'
  <2>1. h' \in [Clients -> Handler]
    <3>1. h[c] \in Handler /\ (h[c].todo \ {b}) \in SUBSET Bindings
      BY DEF ShapeOK, Handler
    <3> QED BY <1>7, <3>1 DEF Cascade, ShapeOK, Handler, Pcs
  <2> QED BY <1>7, <2>1 DEF Cascade, ShapeOK
<1>8. CASE DeleteSchedule(c) \/ DeleteBinding(c)
  BY <1>8, IdleType DEF DeleteSchedule, DeleteBinding, ShapeOK
<1>9. CASE PutBinding(c)
  BY <1>9, IdleType, NewBindingType DEF PutBinding, ShapeOK
<1> QED BY <1>1, <1>2, <1>3, <1>4, <1>5, <1>6, <1>7, <1>8, <1>9 DEF Step

LEMMA ShapeBegin ==
  ASSUME ShapeOK, HandlersOK, NEW c \in Clients, NEW r \in Asked, Begin(c, r)
  PROVE  ShapeOK'
<1>1. raced' \subseteq Schedules /\ met' \subseteq Schedules
  <2>1. \A q \in Asked : Touches(q) \subseteq Schedules
    BY RequestShape, NamesOf DEF Touches, ShapeOK, Binding
  <2>2. \A d \in Busy : Req(d) \in Asked
    BY Running DEF Busy
  <2> DEFINE with == {Req(d) : d \in {x \in Busy : Overlaps(r, x)}}
  <2>3. UNION {Touches(q) : q \in with \cup {r}} \subseteq Schedules
    BY <2>1, <2>2
  <2>4. /\ raced' \subseteq raced \cup UNION {Touches(q) : q \in with \cup {r}}
        /\ met' \subseteq met \cup UNION {Touches(q) : q \in with \cup {r}}
    BY DEF Begin
  <2> QED BY <2>3, <2>4 DEF ShapeOK
<1> QED BY <1>1, BeginsOne DEF Begin, ShapeOK

-----------------------------------------------------------------------------
(* Every handler keeps to its path.                                          *)
LEMMA HandlersStep ==
  ASSUME ShapeOK, HandlersOK, NEW c \in Clients, Step(c) \/ Fail(c)
  PROVE  HandlersOK'
<1> USE DEF Goto, Answer, At, Req
<1>0. OneHandler(c) /\ HandlerOK(c) /\ h[c] \in Handler
  BY StepsOne DEF HandlersOK, ShapeOK
<1>1. \A d \in Clients \ {c} : HandlerOK(d)'
  BY <1>0 DEF OneHandler, HandlersOK, HandlerOK
<1>2. SUFFICES HandlerOK(c)'
  BY <1>1 DEF HandlersOK
<1>3. h'[c] = Idle => HandlerOK(c)'
  BY EmptyListing DEF HandlerOK, Idle, OpsAt, NoRequest, Rereads
<1>4. CASE CheckNew(c) \/ CheckNewBinding(c)
  <2>1. CASE CheckNew(c)
    BY <1>0, <1>3, <2>1 DEF CheckNew, ShapeOK, HandlerOK, Handler, OpsAt, Rereads
  <2>2. CASE CheckNewBinding(c)
    BY <1>0, <1>3, <2>2 DEF CheckNewBinding, ShapeOK, HandlerOK, Handler, OpsAt, Rereads
  <2> QED BY <1>4, <2>1, <2>2
<1>5. CASE GetSchedule(c)
  <2>1. h[c].req \in Asked
    BY <1>5, Running DEF GetSchedule
  <2>2. schedules[h[c].req.sch] # Absent => schedules[h[c].req.sch] \in Schedule
    BY <2>1, RequestShape DEF ShapeOK
  <2> QED BY <1>0, <1>3, <1>5, <2>2 DEF GetSchedule, ShapeOK, HandlerOK, Handler, OpsAt, Rereads
<1>6. CASE GetBinding(c)
  <2>1. h[c].req \in Asked
    BY <1>6, Running DEF GetBinding
  <2>2. bindings[h[c].req.bnd] # Absent => bindings[h[c].req.bnd] \in Binding
    BY <1>6, <2>1, RequestShape DEF ShapeOK, GetBinding, OnBinding
  <2> QED BY <1>0, <1>3, <1>6, <2>2 DEF GetBinding, ShapeOK, HandlerOK, Handler, OpsAt, Rereads
<1>7. CASE PutSchedule(c)
  BY <1>0, <1>3, <1>7 DEF PutSchedule, ShapeOK, HandlerOK, Handler, OpsAt, Rereads
<1>8. CASE ListBindings(c)
  BY <1>0, <1>8 DEF ListBindings, BindingsFor, ShapeOK, HandlerOK, Handler, OpsAt, Rereads
<1>9. ASSUME NEW b \in Bindings, Cascade(c, b) PROVE HandlerOK(c)'
  BY <1>0, <1>9 DEF Cascade, ShapeOK, HandlerOK, Handler, OpsAt, Rereads
<1>10. CASE Fail(c) \/ DeleteSchedule(c) \/ PutBinding(c) \/ DeleteBinding(c)
  BY <1>3, <1>10 DEF Fail, DeleteSchedule, PutBinding, DeleteBinding, ShapeOK
<1> QED BY <1>4, <1>5, <1>6, <1>7, <1>8, <1>9, <1>10 DEF Step

LEMMA HandlersBegin ==
  ASSUME ShapeOK, HandlersOK, NEW c \in Clients, NEW r \in Asked, Begin(c, r)
  PROVE  HandlersOK'
<1>1. \A d \in Clients \ {c} : HandlerOK(d)'
  BY BeginsOne DEF HandlersOK, HandlerOK, At, Req
<1>2. HandlerOK(c)'
  BY BeginsOne, RequestShape, EmptyListing DEF HandlerOK, At, Req, OpsAt, Rereads
<1> QED BY <1>1, <1>2 DEF HandlersOK

-----------------------------------------------------------------------------
(* A request that meets a delete of its schedule, or a delete that meets     *)
(* another request for its schedule, races.                                  *)
LEMMA MeetingRaces ==
  ASSUME ShapeOK, NEW c \in Clients, NEW r \in Asked, Begin(c, r),
         NEW d \in Busy, Req(d).sch = r.sch, r.op = "delete" \/ Req(d).op = "delete"
  PROVE  r.sch \in raced'
<1> DEFINE with == {Req(x) : x \in {y \in Busy : Overlaps(r, y)}}
<1>1. r.sch \in Touches(r) /\ r.sch \in Touches(Req(d))
  BY DEF Touches
<1>2. Req(d) \in with
  BY <1>1 DEF Overlaps
<1>3. raced' = raced \cup (IF \E q \in with \cup {r} : q.op = "delete"
                           THEN IF with = {} THEN {} ELSE UNION {Touches(q) : q \in with \cup {r}}
                           ELSE {})
  BY DEF Begin
<1> HIDE DEF with
<1> QED BY <1>1, <1>2, <1>3

LEMMA OverlapsStep ==
  ASSUME ShapeOK, HandlersOK, OverlapsRaced, NEW c \in Clients, OneHandler(c)
  PROVE  OverlapsRaced'
<1>1. \A d \in Busy' : d \in Busy /\ h'[d].req = h[d].req
  BY DEF OneHandler, Busy, Idle
<1> QED BY <1>1 DEF OneHandler, OverlapsRaced, Req

LEMMA OverlapsBegin ==
  ASSUME ShapeOK, HandlersOK, OverlapsRaced, NEW c \in Clients, NEW r \in Asked, Begin(c, r)
  PROVE  OverlapsRaced'
<1>1. \A d \in Busy' : d = c \/ (d # c /\ d \in Busy /\ h'[d].req = h[d].req)
  BY BeginsOne DEF Busy
<1>2. h'[c].req = r /\ raced \subseteq raced' /\ c \notin Busy
  BY BeginsOne DEF Busy
<1>3. \A d \in Busy : Req(d).sch = r.sch /\ (r.op = "delete" \/ Req(d).op = "delete")
                      => r.sch \in raced'
  BY MeetingRaces
<1> QED BY <1>1, <1>2, <1>3 DEF OverlapsRaced, Req

-----------------------------------------------------------------------------
(* What a step writes.                                                       *)
LEMMA Writes ==
  ASSUME ShapeOK, HandlersOK, NEW c \in Clients, Step(c) \/ Fail(c)
  PROVE  /\ schedules' # schedules => PutSchedule(c) \/ DeleteSchedule(c)
         /\ bindings' # bindings =>
              PutBinding(c) \/ DeleteBinding(c) \/ \E b \in Bindings : Cascade(c, b)
BY DEF Step, Fail, CheckNew, GetSchedule, PutSchedule, ListBindings, Cascade, DeleteSchedule,
       CheckNewBinding, GetBinding, PutBinding, DeleteBinding

(* A schedule that goes has been found by nobody, or raced.                  *)
LEMMA FoundStep ==
  ASSUME IInv, NEW c \in Clients, Step(c) \/ Fail(c)
  PROVE  FoundStays'
<1> USE DEF IInv
<1>0. OneHandler(c) /\ HandlerOK(c)
  BY StepsOne DEF HandlersOK
<1>1. \A d \in Clients : h[d].pc # "idle" => Req(d) \in Asked /\ Req(d).sch \in Schedules
  BY Running, RequestShape
<1>2. ASSUME NEW d \in Clients, Found(d)' PROVE schedules'[h'[d].req.sch] # Absent \/ h'[d].req.sch \in raced'
  <2>1. h[d].pc # "idle" /\ h'[d].req = h[d].req /\ d \in Busy
    BY <1>0, <1>2 DEF OneHandler, Found, Idle, At, Busy
  <2>2. h[d].req.sch \in Schedules
    BY <1>1, <2>1 DEF Req
  <2>3. CASE PutSchedule(c)
    <3>1. schedules' = [schedules EXCEPT ![Req(c).sch] = NewSchedule(Req(c), h[c].copy)]
          /\ NewSchedule(Req(c), h[c].copy) # Absent
      BY <2>3, NewScheduleType DEF PutSchedule
    <3>2. CASE h[d].req.sch = Req(c).sch
      BY <2>1, <2>2, <3>1, <3>2 DEF ShapeOK
    <3>3. CASE h[d].req.sch # Req(c).sch
      <4>1. d # c /\ h'[d] = h[d]
        BY <1>0, <3>3 DEF OneHandler, Req
      <4>2. Found(d)
        BY <1>2, <4>1 DEF Found, At, Req
      <4> QED BY <1>0, <2>1, <2>2, <3>1, <3>3, <4>2 DEF FoundStays, OneHandler, ShapeOK, Req
    <3> QED BY <3>2, <3>3
  <2>4. CASE DeleteSchedule(c)
    <3>1. h'[c] = Idle /\ Req(c).op = "delete" /\ c \in Busy
      BY <2>4 DEF DeleteSchedule, Answer, At, ShapeOK, Busy
    <3>2. d # c /\ h'[d] = h[d]
      BY <1>0, <1>2, <3>1 DEF OneHandler, Found, At, Idle
    <3>3. Found(d)
      BY <1>2, <3>2 DEF Found, At, Req
    <3>4. CASE h[d].req.sch = Req(c).sch
      BY <1>0, <2>1, <3>1, <3>2, <3>4 DEF OverlapsRaced, OneHandler, Req
    <3>5. CASE h[d].req.sch # Req(c).sch
      BY <1>0, <2>1, <2>2, <2>4, <3>3, <3>5 DEF DeleteSchedule, ShapeOK, FoundStays, OneHandler, Req
    <3> QED BY <3>4, <3>5
  <2>5. CASE schedules' = schedules
    <3>1. CASE Found(d)
      BY <1>0, <2>1, <2>5, <3>1 DEF FoundStays, OneHandler, Req
    <3>2. CASE ~Found(d)
      <4>1. d = c /\ h'[c] # Idle
        BY <1>0, <1>2, <3>2 DEF OneHandler, Found, At, Req, Idle
      <4>2. CASE CheckNew(c)
        BY <1>2, <4>1, <4>2, <2>1 DEF CheckNew, Goto, Answer, ShapeOK, Handler, Found, At, Req, Rereads
      <4>3. CASE GetSchedule(c)
        <5>1. schedules[Req(c).sch] # Absent
          BY <4>1, <4>3 DEF GetSchedule, Answer, ShapeOK
        <5> QED BY <4>1, <5>1, <2>5, <2>1 DEF Req
      <4>4. CASE GetBinding(c)
        <5>1. Req(c).bnd \in Bindings /\ bindings[Req(c).bnd] # Absent
              /\ bindings[Req(c).bnd].sch = Req(c).sch
          BY <1>1, <4>1, <4>4, RequestShape DEF GetBinding, Answer, ShapeOK, OnBinding, At
        <5> QED BY <1>0, <4>1, <5>1, <2>5, <2>1 DEF OnlyRacesOrphan, Orphan, OneHandler, Req
      <4>5. CASE PutSchedule(c)
        BY <2>3, <4>5
      <4>6. CASE ListBindings(c) \/ (\E b \in Bindings : Cascade(c, b)) \/ CheckNewBinding(c)
        BY <3>2, <4>1, <4>6 DEF ListBindings, Cascade, CheckNewBinding, Found, At
      <4>7. CASE Fail(c) \/ DeleteSchedule(c) \/ PutBinding(c) \/ DeleteBinding(c)
        BY <4>1, <4>7 DEF Fail, DeleteSchedule, PutBinding, DeleteBinding, Answer, ShapeOK
      <4> QED BY <4>2, <4>3, <4>4, <4>5, <4>6, <4>7 DEF Step
    <3> QED BY <3>1, <3>2
  <2> QED BY <2>3, <2>4, <2>5, Writes
<1> QED BY <1>2 DEF FoundStays, Req

LEMMA FoundBegin ==
  ASSUME IInv, NEW c \in Clients, NEW r \in Asked, Begin(c, r)
  PROVE  FoundStays'
<1>1. schedules' = schedules
  BY DEF Begin
<1>2. ~Found(c)'
  BY BeginsOne, RequestShape DEF IInv, Found, At, Req, OpsAt, Rereads
<1>3. \A d \in Clients \ {c} : Found(d)' => Found(d)
  BY BeginsOne DEF IInv, Found, At, Req
<1> QED BY <1>1, <1>2, <1>3, BeginsOne DEF IInv, FoundStays, Req

-----------------------------------------------------------------------------
(* A binding that appears on a schedule while its cascade runs was put there *)
(* by another handler, which has raced with the delete.                      *)
LEMMA CascadeStep ==
  ASSUME IInv, NEW c \in Clients, Step(c) \/ Fail(c)
  PROVE  CascadeWhole'
<1> USE DEF IInv
<1>0. OneHandler(c) /\ HandlerOK(c)
  BY StepsOne DEF HandlersOK
<1> SUFFICES ASSUME NEW d \in Clients, NEW b \in Bindings, h'[d].pc \in {"cascade", "last"},
                    bindings'[b] # Absent, bindings'[b].sch = h'[d].req.sch
             PROVE  b \in h'[d].todo \/ h'[d].req.sch \in raced
  BY <1>0 DEF CascadeWhole, OneHandler, Req
<1>1. h[d].pc # "idle" /\ h'[d].req = h[d].req
  BY <1>0 DEF OneHandler, Idle
<1>2. CASE PutBinding(c)
  <2>1. /\ bindings' = [bindings EXCEPT ![Req(c).bnd] = NewBinding(Req(c), h[c].copy)]
        /\ NewBinding(Req(c), h[c].copy).sch = Req(c).sch /\ h'[c] = Idle
        /\ Req(c).bnd \in Bindings
    BY <1>2, NewBindingType, RequestShape DEF PutBinding, Answer, ShapeOK
  <2>2. d # c /\ h'[d] = h[d]
    BY <1>0, <2>1 DEF OneHandler, Idle
  <2>3. CASE b = Req(c).bnd
    <3>1. Req(d).sch = Req(c).sch
      BY <2>1, <2>2, <2>3 DEF ShapeOK, Req
    <3>2. Req(d).op = "delete"
      BY <2>2 DEF HandlersOK, HandlerOK, OpsAt
    <3> QED BY <1>0, <1>1, <2>2, <3>1, <3>2 DEF OverlapsRaced, Busy, OneHandler, Req
  <2>4. CASE b # Req(c).bnd
    BY <2>1, <2>2, <2>4 DEF CascadeWhole, ShapeOK, Req
  <2> QED BY <2>3, <2>4
<1>3. CASE DeleteBinding(c)
  <2>1. bindings'[b] = bindings[b] /\ h'[c] = Idle
    BY <1>3 DEF DeleteBinding, Answer, ShapeOK
  <2> QED BY <1>0, <2>1 DEF CascadeWhole, OneHandler, Idle, Req
<1>4. ASSUME NEW a \in Bindings, Cascade(c, a) PROVE b \in h'[d].todo \/ h'[d].req.sch \in raced
  <2>1. a # b /\ bindings'[b] = bindings[b]
    BY <1>4 DEF Cascade, ShapeOK
  <2>2. CASE d # c
    BY <1>0, <2>1, <2>2 DEF CascadeWhole, OneHandler, Req
  <2>3. CASE d = c
    <3>1. h[c].pc = "cascade" /\ h'[c].todo = h[c].todo \ {a}
      BY <1>4 DEF Cascade, At, ShapeOK, Handler
    <3> QED BY <1>1, <2>1, <2>3, <3>1 DEF CascadeWhole, Req
  <2> QED BY <2>2, <2>3
<1>5. CASE ListBindings(c)
  <2>1. h'[c].todo = BindingsFor(Req(c).sch) /\ bindings' = bindings
    BY <1>5 DEF ListBindings, ShapeOK, Handler
  <2>2. CASE d = c
    BY <1>1, <2>1, <2>2 DEF BindingsFor, Req
  <2>3. CASE d # c
    BY <1>0, <2>1, <2>3 DEF CascadeWhole, OneHandler, Req
  <2> QED BY <2>2, <2>3
<1>6. CASE \/ Fail(c) \/ CheckNew(c) \/ GetSchedule(c) \/ PutSchedule(c) \/ DeleteSchedule(c)
           \/ CheckNewBinding(c) \/ GetBinding(c)
  <2>1. CASE Fail(c) \/ CheckNew(c) \/ CheckNewBinding(c) \/ DeleteSchedule(c)
    <3>1. bindings' = bindings /\ h'[c].pc \notin {"cascade", "last"}
      BY <2>1 DEF Fail, CheckNew, CheckNewBinding, DeleteSchedule, Goto, Answer, Idle, ShapeOK, Handler
    <3> QED BY <1>0, <3>1 DEF CascadeWhole, OneHandler, Req
  <2>2. CASE GetSchedule(c) \/ GetBinding(c)
    <3>1. bindings' = bindings /\ h'[c].pc \notin {"cascade", "last"}
      BY <2>2 DEF GetSchedule, GetBinding, Goto, Answer, Idle, ShapeOK, Handler
    <3> QED BY <1>0, <3>1 DEF CascadeWhole, OneHandler, Req
  <2>3. CASE PutSchedule(c)
    <3>1. bindings' = bindings /\ h'[c].pc \notin {"cascade", "last"}
      BY <2>3 DEF PutSchedule, Goto, Answer, Idle, ShapeOK, Handler
    <3> QED BY <1>0, <3>1 DEF CascadeWhole, OneHandler, Req
  <2> QED BY <1>6, <2>1, <2>2, <2>3
<1> QED BY <1>2, <1>3, <1>4, <1>5, <1>6 DEF Step

LEMMA CascadeBegin ==
  ASSUME IInv, NEW c \in Clients, NEW r \in Asked, Begin(c, r)
  PROVE  CascadeWhole'
<1>1. bindings' = bindings
  BY DEF Begin
<1>2. h'[c].pc \notin {"cascade", "last"}
  BY BeginsOne DEF IInv
<1> QED BY <1>1, <1>2, BeginsOne DEF IInv, CascadeWhole, Req

-----------------------------------------------------------------------------
LEMMA OrphanStep ==
  ASSUME IInv, NEW c \in Clients, Step(c) \/ Fail(c)
  PROVE  OnlyRacesOrphan'
<1> USE DEF IInv
<1>0. OneHandler(c) /\ HandlerOK(c)
  BY StepsOne DEF HandlersOK
<1> SUFFICES ASSUME NEW b \in Bindings, bindings'[b] # Absent,
                    schedules'[bindings'[b].sch] = Absent
             PROVE  bindings'[b].sch \in raced
  BY <1>0 DEF OnlyRacesOrphan, Orphan, OneHandler
<1>1. CASE PutSchedule(c)
  <2>1. /\ schedules' = [schedules EXCEPT ![Req(c).sch] = NewSchedule(Req(c), h[c].copy)]
        /\ NewSchedule(Req(c), h[c].copy) # Absent /\ bindings' = bindings
    BY <1>1, NewScheduleType DEF PutSchedule
  <2>2. bindings[b].sch \in Schedules
    BY <2>1 DEF ShapeOK, Binding
  <2> QED BY <2>1, <2>2 DEF OnlyRacesOrphan, Orphan, ShapeOK
<1>2. CASE DeleteSchedule(c)
  <2>1. bindings' = bindings /\ bindings[b].sch \in Schedules /\ h[c].pc = "last"
    BY <1>2 DEF DeleteSchedule, ShapeOK, Binding, At
  <2>2. CASE bindings[b].sch = Req(c).sch
    BY <1>0, <2>1, <2>2 DEF HandlerOK, CascadeWhole
  <2>3. CASE bindings[b].sch # Req(c).sch
    BY <1>2, <2>1, <2>3 DEF DeleteSchedule, ShapeOK, OnlyRacesOrphan, Orphan
  <2> QED BY <2>2, <2>3
<1>3. CASE PutBinding(c)
  <2>1. /\ bindings' = [bindings EXCEPT ![Req(c).bnd] = NewBinding(Req(c), h[c].copy)]
        /\ NewBinding(Req(c), h[c].copy).sch = Req(c).sch /\ schedules' = schedules
        /\ Found(c) /\ Req(c).bnd \in Bindings
    BY <1>3, NewBindingType, RequestShape DEF PutBinding, At, Found
  <2> QED BY <2>1 DEF FoundStays, OnlyRacesOrphan, Orphan, ShapeOK
<1>4. CASE DeleteBinding(c) \/ \E a \in Bindings : Cascade(c, a)
  <2>1. bindings'[b] = bindings[b] /\ schedules' = schedules
    BY <1>4 DEF DeleteBinding, Cascade, ShapeOK
  <2> QED BY <2>1 DEF OnlyRacesOrphan, Orphan
<1>5. CASE UNCHANGED <<schedules, bindings>>
  BY <1>5 DEF OnlyRacesOrphan, Orphan
<1> QED BY <1>1, <1>2, <1>3, <1>4, <1>5, Writes

LEMMA StepInv == IInv /\ [Next]_vars => IInv'
<1> SUFFICES ASSUME IInv, [Next]_vars PROVE IInv'
  OBVIOUS
<1>1. ASSUME NEW c \in Clients, Step(c) \/ Fail(c) PROVE IInv'
  BY <1>1, ShapeStep, HandlersStep, StepsOne, OverlapsStep, FoundStep, CascadeStep, OrphanStep
     DEF IInv
<1>2. ASSUME NEW c \in Clients, NEW r \in Asked, Begin(c, r) PROVE IInv'
  <2>1. OnlyRacesOrphan'
    BY <1>2, BeginsOne DEF IInv, Begin, OnlyRacesOrphan, Orphan
  <2> QED BY <1>2, <2>1, ShapeBegin, HandlersBegin, OverlapsBegin, FoundBegin, CascadeBegin
       DEF IInv
<1>3. CASE UNCHANGED vars
  BY <1>3 DEF vars, IInv, ShapeOK, HandlersOK, HandlerOK, OverlapsRaced, Busy, FoundStays, Found,
              CascadeWhole, OnlyRacesOrphan, Orphan, At, Req
<1> QED BY <1>1, <1>2, <1>3 DEF Next

(* The inductive invariant holds of every interleaving of the handlers.      *)
THEOREM Invariant == Spec => []IInv
BY InitInv, StepInv, PTL DEF Spec

(* Every variable, and every local of a handler, keeps its type.             *)
THEOREM TypeCorrect == Spec => []TypeOK
<1>1. IInv => TypeOK
  <2> SUFFICES ASSUME IInv PROVE TypeOK
    OBVIOUS
  <2>1. ASSUME NEW c \in Clients
        PROVE  /\ h[c].pc \in Pcs /\ h[c].req \in Asked \cup {NoRequest}
               /\ (h[c].pc = "idle") = (h[c].req = NoRequest)
               /\ h[c].copy \in Schedule \cup Binding \cup {Absent}
               /\ h[c].todo \subseteq DOMAIN h[c].listed
               /\ DOMAIN h[c].listed \subseteq Bindings
               /\ (h[c].pc = "cascade") = (h[c].todo # {})
    <3>1. h[c] \in Handler /\ HandlerOK(c)
      BY DEF IInv, ShapeOK, HandlersOK
    <3>2. (h[c].pc = "idle") = (h[c].req = NoRequest)
      BY Running, RequestShape DEF IInv, Req
    <3> QED BY <3>1, <3>2, ListingType DEF Handler, HandlerOK
  <2> QED BY <2>1 DEF IInv, ShapeOK, TypeOK
<1> QED BY <1>1, Invariant, PTL

(* delete_schedule is not atomic, yet a binding outlives its schedule only   *)
(* when another request for that schedule ran during its delete: a call that *)
(* raises in mid-cascade, or any other overlap of handlers, cannot do it.    *)
THEOREM RacesAloneOrphan == Spec => []OnlyRacesOrphan
<1>1. IInv => OnlyRacesOrphan
  BY DEF IInv
<1> QED BY <1>1, Invariant, PTL

(* pause, resume and update write back the schedule they have read; only     *)
(* after such a race can that bring a deleted schedule back.                 *)
THEOREM RacesAloneRevive == Spec => OnlyRacesRevive
<1>1. IInv /\ [Next]_vars =>
        [\A c \in Clients :
           At(c, "put", {"update", "pause", "resume"}) /\ schedules' # schedules
             /\ h'[c].pc = "idle" /\ schedules[Req(c).sch] = Absent
           => Req(c).sch \in raced]_vars
  BY DEF IInv, FoundStays, Found, Rereads, At
<1> QED BY <1>1, Invariant, PTL DEF Spec, OnlyRacesRevive
=============================================================================

------------------------ MODULE AdGuardClientProofs ------------------------
(***************************************************************************)
(* Proofs about AdGuardClient, for any clients, services, ids, any number  *)
(* of migration requests, calls and events: its types with the discipline  *)
(* of Client.rmw, and that it implements BlockLists.                       *)
(***************************************************************************)
EXTENDS AdGuardClient, TLAPS

Asked   == {"wait", "global", "post"}
Holding == {"global", "post"}

CallRecord ==
  [pc : {"idle", "wait", "global", "post", "ok", "error"},
   req : Request \cup {NoRequest}, base : Object \cup {None}, global : SUBSET Service]

MigRecord == [pc : {"new", "global", "apply", "done", "failed"},
              seen : [Name -> Object \cup {None}], steps : SUBSET Step]

\* A request as a caller can make it.
Sound(r) ==
  /\ r \in Request
  /\ r.op = "rename" <=> r.to # r.name
  /\ r.op = "new" => r.id \in Id

\* A caller between GET and POST has the object its closure works on.
SoundCall(c) ==
  /\ c.pc \in Asked => Sound(c.req)
  /\ c.pc \in Holding /\ c.req.op # "new" => c.base \in Object
  /\ c.pc = "global" => c.req.op = "adopt" /\ c.base.inherits

\* What the holder of rmw has read is what AdGuard has, unless the client was
\* changed by others meanwhile.
FreshCall(c) ==
  c.pc \in Holding /\ c.req.name \notin raced =>
    /\ client[c.req.name] = c.base
    /\ c.pc = "post" /\ c.req.op = "adopt" /\ c.base.inherits => c.global = globalList

Fresh == \A w \in Caller : FreshCall(call[w])

IInv == TypeOK /\ (\A w \in Caller : SoundCall(call[w])) /\ Fresh

-----------------------------------------------------------------------------
(* The pieces                                                              *)

LEMMA NoCallType == NoCall \in CallRecord /\ NoCall.pc = "idle"
  BY DEF NoCall, CallRecord, NoRequest

LEMMA NewMigType == NewMig \in MigRecord /\ NewMig.pc = "new"
  BY DEF NewMig, MigRecord, Step

LEMMA CallTypes ==
  ASSUME TypeOK
  PROVE  /\ call \in [Caller -> CallRecord] /\ mig \in [Tab -> MigRecord]
         /\ client \in [Name -> Object \cup {None}]
  BY DEF TypeOK, CallRecord, MigRecord

LEMMA RequestsSound == \A r \in Requests : Sound(r)
  BY DEF Requests, Sound

LEMMA EditedType ==
  ASSUME NEW r, Sound(r), NEW o \in Object, NEW G \in SUBSET Service
  PROVE  Edited(r, o, G) \in Object
  BY DEF Sound, Edited, Object, Request

LEMMA BodyType ==
  ASSUME TypeOK, NEW w \in Caller, SoundCall(call[w]), At(w, "post")
  PROVE  Body(w) \in Post
  <1>1. call[w] \in CallRecord /\ Sound(call[w].req)
    BY CallTypes DEF SoundCall, At, Asked
  <1>2. call[w].req \in Request
    BY <1>1 DEF Sound
  <1>3. CASE call[w].req.op = "new"
    <2>1. NewClient(call[w].req) \in Object
      BY <1>1, <1>2, <1>3 DEF NewClient, Object, Request, Sound
    <2> QED
      BY <1>2, <1>3, <2>1 DEF Body, Post, Request
  <1>4. CASE call[w].req.op # "new"
    <2>1. call[w].base \in Object /\ call[w].global \in SUBSET Service
      BY <1>1, <1>4 DEF SoundCall, At, Holding, CallRecord
    <2>2. Edited(call[w].req, call[w].base, call[w].global) \in Object
      BY <1>1, <2>1, EditedType
    <2> QED
      BY <1>2, <1>4, <2>2 DEF Body, Post, Request
  <1> QED
    BY <1>3, <1>4

LEMMA StoredType ==
  ASSUME TypeOK, NEW p \in Post
  PROVE  /\ Stored(p) \in [Name -> Object \cup {None}]
         /\ \A n \in Name \ {p.name, p.to} : Stored(p)[n] = client[n]
  BY CallTypes DEF Stored, Post

\* An answered call is over, and the other callers' are as they were.
LEMMA AnswerIs ==
  ASSUME TypeOK, NEW w \in Caller, NEW how \in {"ok", "error"}, Answer(w, how)
  PROVE  /\ call' \in [Caller -> CallRecord]
         /\ call'[w].pc = how /\ SoundCall(call'[w])
         /\ \A v \in Caller \ {w} : call'[v] = call[v]
  <1>1. [NoCall EXCEPT !.pc = how] \in CallRecord /\ [NoCall EXCEPT !.pc = how].pc = how
    BY DEF NoCall, CallRecord, NoRequest
  <1>2. call \in [Caller -> CallRecord]
    BY CallTypes
  <1>3. call' \in [Caller -> CallRecord] /\ call'[w].pc = how
    BY <1>1, <1>2 DEF Answer
  <1>4. \A v \in Caller \ {w} : call'[v] = call[v]
    BY <1>2 DEF Answer
  <1> QED
    BY <1>3, <1>4 DEF SoundCall, Asked, Holding

\* A caller that begins a call.
LEMMA AskIs ==
  ASSUME TypeOK, NEW w \in Caller, NEW r, Sound(r),
         call' = [call EXCEPT ![w] = [NoCall EXCEPT !.pc = "wait", !.req = r]]
  PROVE  /\ call' \in [Caller -> CallRecord]
         /\ call'[w].pc = "wait" /\ call'[w].req = r /\ SoundCall(call'[w])
         /\ \A v \in Caller \ {w} : call'[v] = call[v]
  <1> DEFINE c == [NoCall EXCEPT !.pc = "wait", !.req = r]
  <1>1. c \in CallRecord /\ c.pc = "wait" /\ c.req = r
    BY DEF NoCall, CallRecord, NoRequest, Sound
  <1>2. call \in [Caller -> CallRecord]
    BY CallTypes
  <1> HIDE DEF c
  <1>3. call' = [call EXCEPT ![w] = c]
    BY DEF c
  <1>4. call' \in [Caller -> CallRecord] /\ call'[w] = c
    BY <1>1, <1>2, <1>3
  <1>5. \A v \in Caller \ {w} : call'[v] = call[v]
    BY <1>2, <1>3
  <1> QED
    BY <1>1, <1>4, <1>5 DEF SoundCall, Asked, Holding

\* The steps that only touch the migration requests, or nothing of the calls.
LEMMA Frame ==
  ASSUME IInv, UNCHANGED <<client, globalList, rmw, call, raced>>,
         late' \subseteq Post, mig' \in [Tab -> MigRecord],
         calls' \in 0..MaxCalls, events' \in 0..MaxEvents,
         kept' \in [Tab -> SUBSET (Name \X Service)]
  PROVE  IInv'
  BY DEF IInv, TypeOK, MigRecord, Fresh, FreshCall

LEMMA ForgetType ==
  ASSUME TypeOK, NEW P, Forget(P)
  PROVE  kept' \in [Tab -> SUBSET (Name \X Service)]
  BY DEF TypeOK, Forget

LEMMA EventType == ASSUME TypeOK, Event PROVE events' \in 0..MaxEvents
  BY BoundsAssumption DEF TypeOK, Event

\* rmw is handed over with the call that needs it, and given back with it: the
\* invariant after a step of w that leaves the other calls alone.
LEMMA Handover ==
  ASSUME IInv, NEW w \in Caller,
         call' \in [Caller -> CallRecord], SoundCall(call'[w]), FreshCall(call[w])',
         \A v \in Caller \ {w} : call'[v] = call[v] /\ rmw # v,
         IF call'[w].pc \in Holding THEN rmw' = w ELSE rmw' = Nobody,
         client' \in [Name -> Object \cup {None}], globalList' \subseteq Service,
         late' \subseteq Post, mig' \in [Tab -> MigRecord],
         calls' \in 0..MaxCalls, events' \in 0..MaxEvents,
         kept' \in [Tab -> SUBSET (Name \X Service)], raced' \subseteq Name
  PROVE  IInv'
  <1>1. \A v \in Caller \ {w} : call[v].pc \notin Holding
    BY DEF IInv, TypeOK, Holding
  <1>2. \A v \in Caller : SoundCall(call'[v])
    BY DEF IInv
  <1>3. \A v \in Caller : FreshCall(call[v])'
    BY <1>1 DEF FreshCall
  <1>4. \A v \in Caller : call'[v].pc \in Holding <=> rmw' = v
    BY <1>1, CallerAssumption
  <1>5. rmw' \in Caller \cup {Nobody}
    OBVIOUS
  <1>6. TypeOK'
    BY <1>4, <1>5 DEF TypeOK, CallRecord, MigRecord, Holding
  <1> QED
    BY <1>2, <1>3, <1>6 DEF IInv, Fresh

\* A caller that holds nothing begins or is answered; rmw is where it was.
LEMMA Quiet ==
  ASSUME IInv, NEW w \in Caller, call[w].pc \notin Holding,
         call' \in [Caller -> CallRecord], SoundCall(call'[w]), call'[w].pc \notin Holding,
         \A v \in Caller \ {w} : call'[v] = call[v],
         UNCHANGED <<client, globalList, late, rmw, events, raced, kept>>,
         mig' \in [Tab -> MigRecord], calls' \in 0..MaxCalls
  PROVE  IInv'
  <1>1. \A v \in Caller : SoundCall(call'[v])
    BY DEF IInv
  <1>2. \A v \in Caller : call'[v].pc \in Holding <=> rmw' = v
    <2>1. rmw # w
      BY DEF IInv, TypeOK, Holding
    <2>2. \A v \in Caller : call[v].pc \in Holding <=> rmw = v
      BY DEF IInv, TypeOK, Holding
    <2> QED
      BY <2>1, <2>2
  <1>3. Fresh'
    BY DEF IInv, Fresh, FreshCall
  <1>4. TypeOK'
    BY <1>2 DEF IInv, TypeOK, CallRecord, MigRecord, Holding
  <1> QED
    BY <1>1, <1>3, <1>4 DEF IInv

-----------------------------------------------------------------------------
(* The invariant                                                           *)

LEMMA InitInv == Init => IInv
  <1> SUFFICES ASSUME Init PROVE IInv
    OBVIOUS
  <1>1. call \in [Caller -> CallRecord] /\ \A w \in Caller : call[w].pc = "idle"
    BY NoCallType DEF Init
  <1>2. mig \in [Tab -> MigRecord]
    BY NewMigType DEF Init
  <1>3. TypeOK
    BY <1>1, <1>2, CallerAssumption, BoundsAssumption DEF Init, TypeOK, CallRecord, MigRecord
  <1> QED
    BY <1>1, <1>3 DEF IInv, Fresh, FreshCall, SoundCall, Asked, Holding

LEMMA CallInv == ASSUME IInv, NEW r \in Requests, Call(r) PROVE IInv'
  <1>1. Engine \in Caller /\ TypeOK
    BY DEF Caller, IInv
  <1>2. Sound(r)
    BY RequestsSound
  <1>3. /\ call' \in [Caller -> CallRecord]
        /\ call'[Engine].pc = "wait" /\ SoundCall(call'[Engine])
        /\ \A v \in Caller \ {Engine} : call'[v] = call[v]
    BY <1>1, <1>2, AskIs DEF Call
  <1>4. call[Engine].pc \notin Holding /\ call'[Engine].pc \notin Holding
    BY <1>3 DEF Call, Holding
  <1>5. calls' \in 0..MaxCalls /\ mig' \in [Tab -> MigRecord]
    BY <1>1, CallTypes, BoundsAssumption DEF Call, TypeOK
  <1> QED
    BY <1>1, <1>3, <1>4, <1>5, Quiet DEF Call

\* A read that finds what it needs takes rmw and keeps what it read.
LEMMA ReadKeeps ==
  ASSUME TypeOK, NEW w \in Caller, At(w, "wait"), SoundCall(call[w]),
         ~Refuses(call[w].req),
         call' = [call EXCEPT
                    ![w].pc = IF ReadsGlobal(call[w].req, client[call[w].req.name])
                              THEN "global" ELSE "post",
                    ![w].base = client[call[w].req.name]]
  PROVE  /\ call' \in [Caller -> CallRecord] /\ SoundCall(call'[w])
         /\ call'[w].pc \in Holding /\ call'[w].req = call[w].req
         /\ call'[w].base = client[call[w].req.name]
         /\ call'[w].pc = "post" => ~ReadsGlobal(call[w].req, call'[w].base)
         /\ \A v \in Caller \ {w} : call'[v] = call[v]
  <1> DEFINE r == call[w].req
             o == client[r.name]
             k == IF ReadsGlobal(r, o) THEN "global" ELSE "post"
  <1>1. call[w] \in CallRecord /\ call \in [Caller -> CallRecord]
    BY CallTypes
  <1>2. Sound(r)
    BY DEF SoundCall, At, Asked
  <1>3. r.name \in Name /\ o \in Object \cup {None} /\ (r.op # "new" => o \in Object)
    BY <1>2, CallTypes DEF Sound, Request, Refuses
  <1>4. k \in Holding /\ (k = "global" <=> ReadsGlobal(r, o))
    BY DEF Holding
  <1>5. /\ call'[w].pc = k /\ call'[w].base = o /\ call'[w].req = r
        /\ call'[w].global = call[w].global
    BY <1>1 DEF CallRecord
  <1>6. \A v \in Caller \ {w} : call'[v] = call[v]
    BY <1>1
  <1>7. call' \in [Caller -> CallRecord]
    BY <1>1, <1>3, <1>4 DEF CallRecord, Holding
  <1>8. SoundCall(call'[w])
    BY <1>2, <1>3, <1>4, <1>5 DEF SoundCall, Asked, Holding, ReadsGlobal
  <1> QED
    BY <1>4, <1>5, <1>6, <1>7, <1>8

LEMMA ReadInv == ASSUME IInv, NEW w \in Caller, Read(w) PROVE IInv'
  <1>1. TypeOK /\ SoundCall(call[w]) /\ call[w].pc \notin Holding
    BY DEF IInv, Read, At, Holding
  <1>2. calls' \in 0..MaxCalls /\ mig' \in [Tab -> MigRecord]
    BY <1>1, CallTypes DEF Read, TypeOK
  <1>3. ASSUME NEW how \in {"ok", "error"}, Answer(w, how), UNCHANGED rmw PROVE IInv'
    <2>1. /\ call' \in [Caller -> CallRecord] /\ call'[w].pc = how /\ SoundCall(call'[w])
          /\ \A v \in Caller \ {w} : call'[v] = call[v]
      BY <1>1, <1>3, AnswerIs
    <2>2. call'[w].pc \notin Holding
      BY <2>1 DEF Holding
    <2> QED
      BY <1>1, <1>2, <1>3, <2>1, <2>2, Quiet DEF Read
  <1>4. ASSUME ~Refuses(call[w].req), rmw' = w,
               call' = [call EXCEPT
                    ![w].pc = IF ReadsGlobal(call[w].req, client[call[w].req.name])
                              THEN "global" ELSE "post",
                    ![w].base = client[call[w].req.name]]
        PROVE  IInv'
    <2>1. /\ call' \in [Caller -> CallRecord] /\ SoundCall(call'[w])
          /\ call'[w].pc \in Holding /\ call'[w].req = call[w].req
          /\ call'[w].base = client[call[w].req.name]
          /\ call'[w].pc = "post" => ~ReadsGlobal(call[w].req, call'[w].base)
          /\ \A v \in Caller \ {w} : call'[v] = call[v]
      BY <1>1, <1>4, ReadKeeps DEF Read
    <2>2. FreshCall(call[w])'
      BY <2>1 DEF FreshCall, ReadsGlobal, Read
    <2>3. \A v \in Caller \ {w} : rmw # v
      BY CallerAssumption DEF Read
    <2>4. /\ client' \in [Name -> Object \cup {None}] /\ globalList' \subseteq Service
          /\ late' \subseteq Post /\ events' \in 0..MaxEvents
          /\ kept' \in [Tab -> SUBSET (Name \X Service)] /\ raced' \subseteq Name
      BY <1>1 DEF Read, TypeOK
    <2> QED
      BY <1>2, <1>4, <2>1, <2>2, <2>3, <2>4, Handover
  <1> QED
    BY <1>3, <1>4 DEF Read

LEMMA ReadGlobalInv == ASSUME IInv, NEW w \in Caller, ReadGlobal(w) PROVE IInv'
  <1>1. TypeOK /\ SoundCall(call[w]) /\ FreshCall(call[w])
    BY DEF IInv, Fresh
  <1>2. rmw = w /\ \A v \in Caller \ {w} : rmw # v
    BY <1>1 DEF TypeOK, ReadGlobal, At
  <1>3. /\ client' \in [Name -> Object \cup {None}] /\ globalList' \subseteq Service
        /\ late' \subseteq Post /\ mig' \in [Tab -> MigRecord]
        /\ calls' \in 0..MaxCalls /\ events' \in 0..MaxEvents
        /\ kept' \in [Tab -> SUBSET (Name \X Service)]
    BY <1>1, CallTypes DEF TypeOK, ReadGlobal
  <1>4. CASE /\ call' = [call EXCEPT ![w].pc = "post", ![w].global = globalList]
             /\ UNCHANGED <<rmw, raced>>
    <2>1. call \in [Caller -> CallRecord] /\ globalList \in SUBSET Service
      BY <1>1, CallTypes DEF TypeOK
    <2>2. call' \in [Caller -> CallRecord]
      BY <1>4, <2>1 DEF CallRecord
    <2>3. /\ call'[w].pc = "post" /\ call'[w].global = globalList
          /\ call'[w].req = call[w].req /\ call'[w].base = call[w].base
      BY <1>4, <2>1 DEF CallRecord
    <2>4. \A v \in Caller \ {w} : call'[v] = call[v]
      BY <1>4, <2>1
    <2>5. SoundCall(call'[w]) /\ FreshCall(call[w])'
      BY <1>1, <1>4, <2>3 DEF SoundCall, FreshCall, ReadGlobal, At, Asked, Holding
    <2>6. call'[w].pc \in Holding /\ rmw' = w /\ raced' \subseteq Name
      BY <1>1, <1>2, <1>4, <2>3 DEF Holding, TypeOK
    <2> QED
      BY <1>2, <1>3, <2>2, <2>4, <2>5, <2>6, Handover
  <1>5. CASE Answer(w, "error") /\ rmw' = Nobody /\ EndRace(w)
    <2>1. /\ call' \in [Caller -> CallRecord] /\ call'[w].pc = "error" /\ SoundCall(call'[w])
          /\ \A v \in Caller \ {w} : call'[v] = call[v]
      BY <1>1, <1>5, AnswerIs
    <2>2. call'[w].pc \notin Holding /\ FreshCall(call[w])' /\ raced' \subseteq Name
      BY <1>1, <1>5, <2>1 DEF FreshCall, Holding, EndRace, TypeOK
    <2> QED
      BY <1>2, <1>3, <1>5, <2>1, <2>2, Handover
  <1> QED
    BY <1>4, <1>5 DEF ReadGlobal

LEMMA WriteInv == ASSUME IInv, NEW w \in Caller, Write(w) PROVE IInv'
  <1> DEFINE p == Body(w)
  <1>1. TypeOK /\ SoundCall(call[w])
    BY DEF IInv
  <1>2. rmw = w /\ \A v \in Caller \ {w} : rmw # v
    BY <1>1 DEF TypeOK, Write, At
  <1>3. p \in Post
    BY <1>1, BodyType DEF Write
  <1> HIDE DEF p
  <1>4. PICK how \in {"ok", "error"} : Answer(w, how)
    BY DEF Write
  <1>5. /\ call' \in [Caller -> CallRecord] /\ call'[w].pc = how /\ SoundCall(call'[w])
        /\ \A v \in Caller \ {w} : call'[v] = call[v]
    BY <1>1, <1>4, AnswerIs
  <1>6. call'[w].pc \notin Holding /\ FreshCall(call[w])'
    BY <1>5 DEF FreshCall, Holding
  <1>7. rmw' = Nobody /\ raced' \subseteq Name
    BY <1>1 DEF Write, EndRace, TypeOK
  <1>8. client' \in [Name -> Object \cup {None}]
    BY <1>1, <1>3, StoredType, CallTypes DEF Write, p
  <1>9. late' \subseteq Post /\ events' \in 0..MaxEvents
    BY <1>1, <1>3, EventType DEF Write, TypeOK, p
  <1>10. kept' \in [Tab -> SUBSET (Name \X Service)]
    BY <1>1, ForgetType DEF Write, TypeOK
  <1>11. globalList' \subseteq Service /\ mig' \in [Tab -> MigRecord] /\ calls' \in 0..MaxCalls
    BY <1>1, CallTypes DEF Write, TypeOK
  <1> QED
    BY <1>2, <1>5, <1>6, <1>7, <1>8, <1>9, <1>10, <1>11, Handover

-----------------------------------------------------------------------------
(* Changes made by others: whoever is in hand is marked as raced           *)

LEMMA RaceMarks ==
  ASSUME IInv, NEW N, Race(N)
  PROVE  /\ raced' \subseteq Name
         /\ \A w \in Caller : call[w].pc \in Holding /\ call[w].req.name \notin raced'
              => call[w].req.name \notin raced /\ call[w].req.name \notin N
  <1>1. \A w \in Caller : call[w].pc \in Holding => call[w].req.name \in InHand
    BY DEF InHand, Holding
  <1>2. \A w \in Caller : call[w].pc \in Holding => call[w].req.name \in Name
    BY DEF IInv, SoundCall, Asked, Holding, Sound, Request
  <1>3. InHand \subseteq Name
    BY <1>2 DEF InHand, Holding
  <1> QED
    BY <1>1, <1>3 DEF Race, IInv, TypeOK

LEMMA OutsideInv ==
  ASSUME IInv, UNCHANGED <<rmw, call, mig, calls>>,
         client' \in [Name -> Object \cup {None}], globalList' \subseteq Service,
         late' \subseteq Post, Event, NEW P, Forget(P), raced' \subseteq Name,
         \A w \in Caller : call[w].pc \in Holding /\ call[w].req.name \notin raced' =>
           /\ call[w].req.name \notin raced
           /\ client'[call[w].req.name] = client[call[w].req.name]
           /\ call[w].pc = "post" /\ call[w].req.op = "adopt" => globalList' = globalList
  PROVE  IInv'
  <1>1. TypeOK /\ events' \in 0..MaxEvents /\ kept' \in [Tab -> SUBSET (Name \X Service)]
    BY EventType, ForgetType DEF IInv
  <1>2. TypeOK'
    BY <1>1 DEF TypeOK
  <1>3. Fresh'
    BY DEF IInv, Fresh, FreshCall
  <1> QED
    BY <1>2, <1>3 DEF IInv

LEMMA WriteLateInv == ASSUME IInv, NEW p \in late, WriteLate(p) PROVE IInv'
  <1>1. TypeOK /\ p \in Post
    BY DEF IInv, TypeOK
  <1>2. /\ client' \in [Name -> Object \cup {None}]
        /\ \A n \in Name \ {p.name, p.to} : client'[n] = client[n]
    BY <1>1, StoredType DEF WriteLate
  <1>3. /\ raced' \subseteq Name
        /\ \A w \in Caller : call[w].pc \in Holding /\ call[w].req.name \notin raced'
             => call[w].req.name \notin raced /\ call[w].req.name \notin {p.name, p.to}
    BY RaceMarks DEF WriteLate
  <1>4. \A w \in Caller : call[w].pc \in Holding => call[w].req.name \in Name
    BY DEF IInv, SoundCall, Asked, Holding, Sound, Request
  <1>5. globalList' \subseteq Service /\ late' \subseteq Post
    BY <1>1 DEF WriteLate, TypeOK
  <1>6. \A w \in Caller : call[w].pc \in Holding /\ call[w].req.name \notin raced' =>
           /\ call[w].req.name \notin raced
           /\ client'[call[w].req.name] = client[call[w].req.name]
           /\ call[w].pc = "post" /\ call[w].req.op = "adopt" => globalList' = globalList
    BY <1>2, <1>3, <1>4 DEF WriteLate
  <1> QED
    BY <1>2, <1>3, <1>5, <1>6, OutsideInv DEF WriteLate

LEMMA UIClientInv ==
  ASSUME IInv, NEW n \in Name, NEW o \in Object \cup {None}, UIClient(n, o)
  PROVE  IInv'
  <1>1. TypeOK
    BY DEF IInv
  <1>2. client' \in [Name -> Object \cup {None}] /\ \A m \in Name \ {n} : client'[m] = client[m]
    BY <1>1, CallTypes DEF UIClient
  <1>3. /\ raced' \subseteq Name
        /\ \A w \in Caller : call[w].pc \in Holding /\ call[w].req.name \notin raced'
             => call[w].req.name \notin raced /\ call[w].req.name \notin {n}
    BY RaceMarks DEF UIClient
  <1>4. \A w \in Caller : call[w].pc \in Holding => call[w].req.name \in Name
    BY DEF IInv, SoundCall, Asked, Holding, Sound, Request
  <1>5. globalList' \subseteq Service /\ late' \subseteq Post
    BY <1>1 DEF UIClient, TypeOK
  <1>6. \A w \in Caller : call[w].pc \in Holding /\ call[w].req.name \notin raced' =>
           /\ call[w].req.name \notin raced
           /\ client'[call[w].req.name] = client[call[w].req.name]
           /\ call[w].pc = "post" /\ call[w].req.op = "adopt" => globalList' = globalList
    BY <1>2, <1>3, <1>4 DEF UIClient
  <1> QED
    BY <1>2, <1>3, <1>5, <1>6, OutsideInv DEF UIClient

LEMMA UIGlobalInv == ASSUME IInv, NEW G \in SUBSET Service, UIGlobal(G) PROVE IInv'
  <1> DEFINE N == {call[w].req.name :
                     w \in {v \in Caller : At(v, "post") /\ call[v].req.op = "adopt"}}
  <1>1. TypeOK
    BY DEF IInv
  <1>2. \A w \in Caller : call[w].pc = "post" /\ call[w].req.op = "adopt"
                            => call[w].req.name \in N
    BY DEF At
  <1>3. Race(N)
    BY DEF UIGlobal
  <1> HIDE DEF N
  <1>4. /\ raced' \subseteq Name
        /\ \A w \in Caller : call[w].pc \in Holding /\ call[w].req.name \notin raced'
             => call[w].req.name \notin raced /\ call[w].req.name \notin N
    BY <1>3, RaceMarks
  <1>5. /\ client' \in [Name -> Object \cup {None}]
        /\ globalList' \subseteq Service /\ late' \subseteq Post
    BY <1>1 DEF UIGlobal, TypeOK
  <1>6. \A w \in Caller : call[w].pc \in Holding /\ call[w].req.name \notin raced' =>
           /\ call[w].req.name \notin raced
           /\ client'[call[w].req.name] = client[call[w].req.name]
           /\ call[w].pc = "post" /\ call[w].req.op = "adopt" => globalList' = globalList
    BY <1>2, <1>4 DEF UIGlobal
  <1> QED
    BY <1>4, <1>5, <1>6, OutsideInv DEF UIGlobal

-----------------------------------------------------------------------------
(* The migration requests                                                  *)

LEMMA MigGotoType ==
  ASSUME TypeOK, NEW t \in Tab, NEW where \in {"done", "failed"}, MigGoto(t, where)
  PROVE  mig' \in [Tab -> MigRecord]
  <1>1. [NewMig EXCEPT !.pc = where] \in MigRecord
    BY DEF NewMig, MigRecord, Step
  <1> QED
    BY <1>1, CallTypes DEF MigGoto

LEMMA MigrationReadInv ==
  ASSUME IInv, NEW t \in Tab, NEW M \in SUBSET Name, MigrationRead(t, M)
  PROVE  IInv'
  <1> DEFINE s == [n \in Name |-> IF n \in M THEN client[n] ELSE None]
  <1>1. TypeOK /\ mig \in [Tab -> MigRecord] /\ client \in [Name -> Object \cup {None}]
    BY CallTypes DEF IInv
  <1>2. s \in [Name -> Object \cup {None}]
    BY <1>1
  <1> HIDE DEF s
  <1>3. mig' \in [Tab -> MigRecord]
    <2>1. CASE mig' = [mig EXCEPT ![t].pc = "global", ![t].seen = s]
      BY <1>1, <1>2, <2>1 DEF MigRecord
    <2>2. CASE MigGoto(t, "failed")
      BY <1>1, <2>2, MigGotoType
    <2> QED
      BY <2>1, <2>2 DEF MigrationRead, s
  <1>4. /\ late' \subseteq Post /\ calls' \in 0..MaxCalls /\ events' \in 0..MaxEvents
        /\ kept' \in [Tab -> SUBSET (Name \X Service)]
    BY <1>1 DEF MigrationRead, TypeOK
  <1> QED
    BY <1>3, <1>4, Frame DEF MigrationRead

LEMMA MigrationOfferInv == ASSUME IInv, NEW t \in Tab, MigrationOffer(t) PROVE IInv'
  <1> DEFINE seen    == mig[t].seen
             present == {n \in Name : seen[n] # None}
             inh     == {n \in present : seen[n].inherits}
             own     == [n \in present |-> seen[n].blocked]
             adg     == [present |-> present, global |-> globalList,
                         inherits |-> inh, own |-> own]
             steps   == Offer(adg, present)
  <1>1. TypeOK /\ mig \in [Tab -> MigRecord]
    BY CallTypes DEF IInv
  <1>2. seen \in [Name -> Object \cup {None}]
    BY <1>1 DEF MigRecord
  <1>3. own \in [present -> SUBSET Service] /\ inh \subseteq present /\ present \subseteq Name
    BY <1>2 DEF Object
  <1>4. globalList \in SUBSET Service
    BY <1>1 DEF TypeOK
  <1>5. steps \subseteq Step
    <2> HIDE DEF own, inh, present
    <2> SUFFICES ASSUME NEW x \in steps PROVE x \in Step
      OBVIOUS
    <2>1. PICK c \in present : x = [client |-> c, target |-> own[c] \cup globalList]
      BY DEF Offer
    <2> QED
      BY <2>1, <1>3, <1>4 DEF Step
  <1> DEFINE K == {st.client : st \in steps} \X globalList
  <1>6. K \in SUBSET (Name \X Service)
    <2> HIDE DEF steps
    <2> QED
      BY <1>4, <1>5 DEF Step
  <1>7. \/ /\ mig' = [mig EXCEPT ![t] = [NewMig EXCEPT !.pc = "apply", !.steps = steps]]
           /\ kept' = [kept EXCEPT ![t] = K]
        \/ MigGoto(t, "failed") /\ UNCHANGED kept
    BY DEF MigrationOffer
  <1> HIDE DEF steps, K
  <1>8. [NewMig EXCEPT !.pc = "apply", !.steps = steps] \in MigRecord
    BY <1>5 DEF NewMig, MigRecord
  <1>9. mig' \in [Tab -> MigRecord]
    BY <1>1, <1>7, <1>8, MigGotoType
  <1>10. kept' \in [Tab -> SUBSET (Name \X Service)]
    BY <1>1, <1>6, <1>7 DEF TypeOK
  <1>11. late' \subseteq Post /\ calls' \in 0..MaxCalls /\ events' \in 0..MaxEvents
    BY <1>1 DEF MigrationOffer, TypeOK
  <1> QED
    BY <1>9, <1>10, <1>11, Frame DEF MigrationOffer

\* What a migration asks for is a request.
LEMMA MigrationCallIs ==
  ASSUME IInv, NEW t \in Tab, NEW st \in mig[t].steps, MigrationCall(t, st)
  PROVE  /\ call' \in [Caller -> CallRecord]
         /\ call'[t].pc = "wait" /\ SoundCall(call'[t])
         /\ \A v \in Caller \ {t} : call'[v] = call[v]
  <1>1. TypeOK /\ t \in Caller /\ mig[t] \in MigRecord
    BY CallTypes DEF IInv, Caller
  <1>2. st \in Step
    BY <1>1 DEF MigRecord
  <1>3. Sound([For("migrate", st.client) EXCEPT !.ids = st.target])
    BY <1>2 DEF Sound, For, Request, Step
  <1> QED
    BY <1>1, <1>3, AskIs DEF MigrationCall

LEMMA MigrationCallInv ==
  ASSUME IInv, NEW t \in Tab, NEW st \in mig[t].steps, MigrationCall(t, st)
  PROVE  IInv'
  <1>1. TypeOK /\ t \in Caller /\ mig \in [Tab -> MigRecord]
    BY CallTypes DEF IInv, Caller
  <1>2. mig' \in [Tab -> MigRecord]
    BY <1>1 DEF MigrationCall, MigRecord
  <1>3. call[t].pc \notin Holding /\ call'[t].pc \notin Holding /\ calls' \in 0..MaxCalls
    BY <1>1, MigrationCallIs DEF MigrationCall, At, Holding, TypeOK
  <1> QED
    BY <1>1, <1>2, <1>3, MigrationCallIs, Quiet DEF MigrationCall

\* The request is rid of the call that answered.
LEMMA MigrationAnswerIs ==
  ASSUME TypeOK, NEW t \in Tab, MigrationAnswer(t)
  PROVE  /\ call' \in [Caller -> CallRecord]
         /\ call'[t].pc = "idle" /\ SoundCall(call'[t])
         /\ \A v \in Caller \ {t} : call'[v] = call[v]
  <1>1. t \in Caller /\ call \in [Caller -> CallRecord]
    BY CallTypes DEF Caller
  <1>2. call' \in [Caller -> CallRecord] /\ call'[t] = NoCall
    BY <1>1, NoCallType DEF MigrationAnswer
  <1>3. \A v \in Caller \ {t} : call'[v] = call[v]
    BY <1>1 DEF MigrationAnswer
  <1> QED
    BY <1>2, <1>3, NoCallType DEF SoundCall, Asked, Holding

LEMMA MigrationAnswerInv == ASSUME IInv, NEW t \in Tab, MigrationAnswer(t) PROVE IInv'
  <1>1. TypeOK /\ t \in Caller /\ mig \in [Tab -> MigRecord]
    BY CallTypes DEF IInv, Caller
  <1>2. mig' \in [Tab -> MigRecord]
    BY <1>1, MigGotoType DEF MigrationAnswer
  <1>3. call[t].pc \notin Holding /\ call'[t].pc \notin Holding /\ calls' \in 0..MaxCalls
    BY <1>1, MigrationAnswerIs DEF MigrationAnswer, Holding, TypeOK
  <1> QED
    BY <1>1, <1>2, <1>3, MigrationAnswerIs, Quiet DEF MigrationAnswer

LEMMA MigrationDoneInv == ASSUME IInv, NEW t \in Tab, MigrationDone(t) PROVE IInv'
  <1>1. TypeOK /\ mig' \in [Tab -> MigRecord]
    BY MigGotoType DEF IInv, MigrationDone
  <1>2. /\ late' \subseteq Post /\ calls' \in 0..MaxCalls /\ events' \in 0..MaxEvents
        /\ kept' \in [Tab -> SUBSET (Name \X Service)]
    BY <1>1 DEF MigrationDone, TypeOK
  <1> QED
    BY <1>1, <1>2, Frame DEF MigrationDone

LEMMA InvStep == IInv /\ [Next]_vars => IInv'
  <1> SUFFICES ASSUME IInv, [Next]_vars PROVE IInv'
    OBVIOUS
  <1>1. CASE UNCHANGED vars
    BY <1>1 DEF vars, IInv, TypeOK, Fresh, FreshCall
  <1>2. CASE \E r \in Requests : Call(r)
    BY <1>2, CallInv
  <1>3. CASE \E w \in Caller : Read(w) \/ ReadGlobal(w) \/ Write(w)
    BY <1>3, ReadInv, ReadGlobalInv, WriteInv
  <1>4. CASE \E t \in Tab : Migration(t)
    BY <1>4, MigrationReadInv, MigrationOfferInv, MigrationCallInv, MigrationAnswerInv,
       MigrationDoneInv DEF Migration
  <1>5. CASE \E p \in late : WriteLate(p)
    BY <1>5, WriteLateInv
  <1>6. CASE \E n \in Name, o \in Object \cup {None} : UIClient(n, o)
    BY <1>6, UIClientInv
  <1>7. CASE \E G \in SUBSET Service : UIGlobal(G)
    BY <1>7, UIGlobalInv
  <1> QED
    BY <1>1, <1>2, <1>3, <1>4, <1>5, <1>6, <1>7 DEF Next

\* The client's state keeps its types, and a caller is between its GET and its
\* POST exactly while it holds Client.rmw (updateClient, AddClient).
THEOREM ClientTypes == Spec => []TypeOK
  <1>1. IInv => TypeOK
    BY DEF IInv
  <1> QED
    BY <1>1, InitInv, InvStep, PTL DEF Spec

-----------------------------------------------------------------------------
(* Every step is one of BlockLists, or none                                *)

\* A step of one caller moves that caller's status and nobody's request but its.
LEMMA Moves ==
  ASSUME NEW w \in Caller, NEW s,
         s = IF call'[w].pc \in Asked THEN "asked" ELSE call'[w].pc,
         \A v \in Caller \ {w} : call'[v] = call[v]
  PROVE  Promise!Becomes(w, s) /\ Promise!OthersWait(w)
  BY DEF Promise!Becomes, Promise!OthersWait, Asked

\* A read whose edit changes nothing has done what was asked.
LEMMA SkipTakes ==
  ASSUME TypeOK, NEW w \in Caller, Sound(call[w].req), ~Refuses(call[w].req),
         Skips(call[w].req, client[call[w].req.name]), UNCHANGED client
  PROVE  Promise!Takes(call[w].req)
  <1> DEFINE r == call[w].req
             o == client[r.name]
  <1>1. r.name \in Name /\ r.op \in {"remove", "add", "adopt"} /\ r.to = r.name
    BY DEF Sound, Skips, Request
  <1>2. o \in Object /\ o # None
    BY <1>1, CallTypes DEF Refuses
  <1>3. Promise!Wanted(r, o) = o
    <2>1. CASE r.op \in {"remove", "add"}
      BY <2>1 DEF Skips, Edited, Promise!Wanted
    <2>2. CASE r.op = "adopt"
      <3>1. ~o.inherits /\ Edited(r, o, {}) = o
        BY <2>2 DEF Skips
      <3>2. o.blocked \cup r.ids = r.ids \cup o.blocked
        OBVIOUS
      <3>3. Edited(r, o, {}) = [o EXCEPT !.blocked = o.blocked \cup r.ids, !.inherits = FALSE]
        BY <1>2, <2>2, <3>1 DEF Edited, Object
      <3>4. Promise!Wanted(r, o) = [o EXCEPT !.blocked = r.ids \cup o.blocked, !.inherits = FALSE]
        BY <1>2, <2>2, <3>1 DEF Promise!Wanted, Object
      <3> QED
        BY <3>1, <3>2, <3>3, <3>4
    <2> QED
      BY <1>1, <2>1, <2>2
  <1>4. client' = [client EXCEPT ![r.name] = None, ![r.to] = o]
    BY <1>1, CallTypes
  <1> QED
    BY <1>1, <1>2, <1>3, <1>4 DEF Promise!Takes

LEMMA ReadServes ==
  ASSUME IInv, NEW w \in Caller, Read(w)
  PROVE  [Promise!Next]_Promise!vars
  <1>1. TypeOK /\ call[w].pc = "wait" /\ Sound(call[w].req)
    BY DEF IInv, SoundCall, Read, At, Asked
  <1>2. UNCHANGED <<client, globalList, events>>
    BY DEF Read
  <1>3. CASE Answer(w, "error")
    <2>1. call'[w].pc = "error" /\ \A v \in Caller \ {w} : call'[v] = call[v]
      BY <1>1, <1>3, AnswerIs
    <2>2. Promise!Becomes(w, "error") /\ Promise!OthersWait(w)
      BY <2>1, Moves DEF Asked
    <2>3. Promise!Serve(w)
      BY <1>1, <1>2, <2>2 DEF Promise!Serve
    <2> QED
      BY <2>3 DEF Promise!Next
  <1>4. CASE /\ ~Refuses(call[w].req) /\ Skips(call[w].req, client[call[w].req.name])
             /\ Answer(w, "ok")
    <2>1. call'[w].pc = "ok" /\ \A v \in Caller \ {w} : call'[v] = call[v]
      BY <1>1, <1>4, AnswerIs
    <2>2. Promise!Becomes(w, "ok") /\ Promise!OthersWait(w)
      BY <2>1, Moves DEF Asked
    <2>3. Promise!Takes(call[w].req)
      BY <1>1, <1>2, <1>4, SkipTakes
    <2>4. Promise!Serve(w)
      BY <1>1, <1>2, <2>2, <2>3 DEF Promise!Serve
    <2> QED
      BY <2>4 DEF Promise!Next
  <1>5. CASE /\ ~Refuses(call[w].req)
             /\ call' = [call EXCEPT
                    ![w].pc = IF ReadsGlobal(call[w].req, client[call[w].req.name])
                              THEN "global" ELSE "post",
                    ![w].base = client[call[w].req.name]]
    <2>1. /\ call'[w].pc \in Holding /\ call'[w].req = call[w].req
          /\ \A v \in Caller \ {w} : call'[v] = call[v]
      BY <1>1, <1>5, ReadKeeps DEF IInv, Read
    <2>2. UNCHANGED Promise!vars
      BY <1>1, <1>2, <2>1 DEF Promise!vars, Holding
    <2> QED
      BY <2>2
  <1> QED
    BY <1>3, <1>4, <1>5 DEF Read

LEMMA ReadGlobalServes ==
  ASSUME IInv, NEW w \in Caller, ReadGlobal(w)
  PROVE  [Promise!Next]_Promise!vars
  <1>1. TypeOK /\ call[w].pc = "global" /\ call \in [Caller -> CallRecord]
    BY CallTypes DEF IInv, ReadGlobal, At
  <1>2. UNCHANGED <<client, globalList, events>>
    BY DEF ReadGlobal
  <1>3. CASE Answer(w, "error")
    <2>1. call'[w].pc = "error" /\ \A v \in Caller \ {w} : call'[v] = call[v]
      BY <1>1, <1>3, AnswerIs
    <2>2. Promise!Becomes(w, "error") /\ Promise!OthersWait(w)
      BY <2>1, Moves DEF Asked
    <2>3. Promise!Serve(w)
      BY <1>1, <1>2, <2>2 DEF Promise!Serve
    <2> QED
      BY <2>3 DEF Promise!Next
  <1>4. CASE call' = [call EXCEPT ![w].pc = "post", ![w].global = globalList]
    <2>1. /\ call'[w].pc = "post" /\ call'[w].req = call[w].req
          /\ \A v \in Caller \ {w} : call'[v] = call[v]
      BY <1>1, <1>4 DEF CallRecord
    <2>2. UNCHANGED Promise!vars
      BY <1>1, <1>2, <2>1 DEF Promise!vars
    <2> QED
      BY <2>2
  <1> QED
    BY <1>3, <1>4 DEF ReadGlobal

\* What is posted is what was asked for, on the object AdGuard has.
LEMMA FreshTakes ==
  ASSUME IInv, NEW w \in Caller, At(w, "post"), call[w].req.name \notin raced,
         Accepts(Body(w)), client' = Stored(Body(w))
  PROVE  Promise!Takes(call[w].req)
  <1> DEFINE r == call[w].req
             o == client[r.name]
             p == Body(w)
  <1>1. Sound(r) /\ r.op \in Op \cup {"migrate"} /\ call[w] \in CallRecord
    BY CallTypes DEF IInv, SoundCall, At, Asked, Sound, Request
  <1>2. o = call[w].base /\ (r.op = "adopt" /\ o.inherits => call[w].global = globalList)
    BY DEF IInv, Fresh, FreshCall, At, Holding
  <1>3. p.name = r.name /\ p.to = r.to /\ (p.new <=> r.op = "new")
    BY DEF Body
  <1>4. p.obj = Promise!Wanted(r, o)
    <2>1. CASE r.op = "new"
      <3>1. p.obj = NewClient(r)
        BY <2>1 DEF Body
      <3> QED
        BY <2>1, <3>1 DEF NewClient, Promise!Wanted
    <2>2. CASE r.op # "new"
      <3>1. p.obj = Edited(r, o, call[w].global)
        BY <1>2, <2>2 DEF Body
      <3>2. CASE r.op = "adopt"
        <4>1. o \in Object
          BY <1>2, <2>2 DEF IInv, SoundCall, At, Holding
        <4>2. (IF o.inherits THEN call[w].global ELSE o.blocked) \cup r.ids
                = r.ids \cup (IF o.inherits THEN globalList ELSE o.blocked)
          BY <1>2, <3>2
        <4>3. Edited(r, o, call[w].global)
                = [o EXCEPT !.blocked = (IF o.inherits THEN call[w].global ELSE o.blocked) \cup r.ids,
                            !.inherits = FALSE]
          BY <3>2, <4>1 DEF Edited, Object
        <4>4. Promise!Wanted(r, o)
                = [o EXCEPT !.blocked = r.ids \cup (IF o.inherits THEN globalList ELSE o.blocked),
                            !.inherits = FALSE]
          BY <3>2 DEF Promise!Wanted
        <4> QED
          BY <3>1, <4>2, <4>3, <4>4
      <3>3. CASE r.op # "adopt"
        BY <1>1, <2>2, <3>1, <3>3 DEF Edited, Promise!Wanted, Op
      <3> QED
        BY <3>2, <3>3
    <2> QED
      BY <2>1, <2>2
  <1>5. client' = [client EXCEPT ![r.name] = None, ![r.to] = Promise!Wanted(r, o)]
    BY <1>3, <1>4 DEF Stored
  <1>6. r.op = "new" => \A n \in Name : client[n] # None => n # r.name /\ client[n].id # r.id
    <2> SUFFICES ASSUME r.op = "new"
                 PROVE  \A n \in Name : client[n] # None => n # r.name /\ client[n].id # r.id
      OBVIOUS
    <2>1. p.obj.id = r.id
      BY DEF Body, NewClient
    <2> QED
      BY <1>3, <2>1 DEF Accepts
  <1>7. /\ r.op # "new" => client[r.name] # None
        /\ r.op = "rename" => client[r.to] = None
    BY <1>1, <1>3 DEF Accepts, Sound
  <1> QED
    BY <1>5, <1>6, <1>7 DEF Promise!Takes

LEMMA WriteServes ==
  ASSUME IInv, NEW w \in Caller, Write(w)
  PROVE  [Promise!Next]_Promise!vars
  <1> DEFINE r == call[w].req
  <1>1. TypeOK /\ At(w, "post") /\ SoundCall(call[w]) /\ UNCHANGED globalList
    BY DEF IInv, Write
  <1>2. ASSUME NEW how \in {"ok", "error"}, Answer(w, how)
        PROVE  Promise!Becomes(w, how) /\ Promise!OthersWait(w)
    <2>1. call'[w].pc = how /\ \A v \in Caller \ {w} : call'[v] = call[v]
      BY <1>1, <1>2, AnswerIs
    <2> QED
      BY <2>1, Moves DEF Asked
  <1>3. ASSUME Accepts(Body(w)), client' = Stored(Body(w))
        PROVE  Promise!Takes(r) \/ (r.name \in raced /\ Promise!Confined(r))
    <2>1. CASE r.name \notin raced
      BY <1>1, <1>3, <2>1, FreshTakes
    <2>2. Body(w) \in Post /\ Body(w).name = r.name /\ Body(w).to = r.to
      BY <1>1, BodyType DEF Body
    <2>3. Promise!Confined(r)
      BY <1>1, <1>3, <2>2, StoredType DEF Promise!Confined
    <2> QED
      BY <2>1, <2>3
  <1>4. Promise!Serve(w)
    <2>1. CASE Answer(w, "ok") /\ Accepts(Body(w)) /\ client' = Stored(Body(w)) /\ UNCHANGED events
      <3>1. Promise!Becomes(w, "ok") /\ Promise!OthersWait(w)
        BY <1>2, <2>1
      <3> QED
        BY <1>1, <1>3, <2>1, <3>1 DEF Promise!Serve, At
    <2>2. CASE /\ Answer(w, "error")
               /\ \/ Accepts(Body(w)) /\ client' = Stored(Body(w))
                  \/ UNCHANGED client
               /\ events' \in {events, events + 1}
      <3>1. Promise!Becomes(w, "error") /\ Promise!OthersWait(w)
        BY <1>2, <2>2
      <3> QED
        BY <1>1, <1>3, <2>2, <3>1 DEF Promise!Serve, At
    <2> QED
      BY <2>1, <2>2 DEF Write, Event
  <1> QED
    BY <1>4 DEF Promise!Next

LEMMA AskAsks ==
  ASSUME NEW w \in Caller, call[w].pc \notin Asked, call'[w].pc = "wait",
         \A v \in Caller \ {w} : call'[v] = call[v],
         UNCHANGED <<client, globalList, events>>,
         call[w].pc # "asked"
  PROVE  [Promise!Next]_Promise!vars
  <1>1. Promise!Becomes(w, "asked") /\ Promise!OthersWait(w)
    BY Moves DEF Asked
  <1>2. Promise!Ask(w)
    BY <1>1 DEF Promise!Ask, Asked
  <1> QED
    BY <1>2 DEF Promise!Next

LEMMA MigrationServes ==
  ASSUME IInv, NEW t \in Tab, Migration(t)
  PROVE  [Promise!Next]_Promise!vars
  <1>1. t \in Caller /\ TypeOK
    BY DEF Caller, IInv
  <1>2. ASSUME NEW st \in mig[t].steps, MigrationCall(t, st)
        PROVE  [Promise!Next]_Promise!vars
    BY <1>1, <1>2, MigrationCallIs, AskAsks DEF MigrationCall, At, Asked
  <1>3. CASE MigrationAnswer(t)
    <2>1. call'[t].pc = "idle" /\ \A v \in Caller \ {t} : call'[v] = call[v]
      BY <1>1, <1>3, MigrationAnswerIs
    <2>2. Promise!Becomes(t, "idle") /\ Promise!OthersWait(t)
      BY <1>1, <2>1, Moves DEF Asked
    <2>3. Promise!Leave(t)
      BY <1>1, <1>3, <2>2 DEF Promise!Leave, MigrationAnswer
    <2> QED
      BY <1>1, <2>3 DEF Promise!Next
  <1>4. CASE (\E M \in SUBSET Name : MigrationRead(t, M)) \/ MigrationOffer(t) \/ MigrationDone(t)
    <2>1. UNCHANGED <<client, globalList, call, events>>
      BY <1>4 DEF MigrationRead, MigrationOffer, MigrationDone
    <2> QED
      BY <2>1 DEF Promise!vars
  <1> QED
    BY <1>2, <1>3, <1>4 DEF Migration

LEMMA StepImplements == IInv /\ [Next]_vars => [Promise!Next]_Promise!vars
  <1> SUFFICES ASSUME IInv, [Next]_vars PROVE [Promise!Next]_Promise!vars
    OBVIOUS
  <1>1. CASE UNCHANGED vars
    BY <1>1 DEF vars, Promise!vars
  <1>2. ASSUME NEW r \in Requests, Call(r) PROVE [Promise!Next]_Promise!vars
    <2>1. Engine \in Caller /\ TypeOK /\ Sound(r)
      BY RequestsSound DEF Caller, IInv
    <2>2. call'[Engine].pc = "wait" /\ \A v \in Caller \ {Engine} : call'[v] = call[v]
      BY <1>2, <2>1, AskIs DEF Call
    <2>3. call[Engine].pc \notin Asked /\ call[Engine].pc # "asked"
      BY <1>2 DEF Call, Asked
    <2> QED
      BY <1>2, <2>1, <2>2, <2>3, AskAsks DEF Call
  <1>3. CASE \E w \in Caller : Read(w) \/ ReadGlobal(w) \/ Write(w)
    BY <1>3, ReadServes, ReadGlobalServes, WriteServes
  <1>4. CASE \E t \in Tab : Migration(t)
    BY <1>4, MigrationServes
  <1>5. CASE \/ \E p \in late : WriteLate(p)
             \/ \E n \in Name, o \in Object \cup {None} : UIClient(n, o)
             \/ \E G \in SUBSET Service : UIGlobal(G)
    <2>1. events' = events + 1 /\ UNCHANGED call
      BY <1>5 DEF WriteLate, UIClient, UIGlobal, Event
    <2>2. Promise!Outside
      BY <2>1 DEF Promise!Outside
    <2> QED
      BY <2>2 DEF Promise!Next
  <1> QED
    BY <1>1, <1>2, <1>3, <1>4, <1>5 DEF Next

\* Every call of the client is one step of BlockLists: two writers never lose
\* each other's edit, nothing but what was asked for changes, and "ok" means it
\* was done, unless others changed that very client between the call's GET and
\* its POST (updateClient, AdoptBlockedServices, AddClient).
THEOREM ClientImplementsBlockLists == Spec => CallsAreAtomic
  <1>1. Init => Promise!Init
    BY DEF Init, Promise!Init, NoCall
  <1> QED
    BY <1>1, InitInv, InvStep, StepImplements, PTL DEF Spec, CallsAreAtomic, Promise!Spec

-----------------------------------------------------------------------------
(* A migration's offer                                                     *)

Offered == {"apply", "done"}

\* The pair is still to be written by the request, or the request will fail.
Waits(t, n, s) ==
  /\ mig[t].pc = "apply"
  /\ \/ \E st \in mig[t].steps : st.client = n /\ s \in st.target
     \/ call[t].pc = "error"
     \/ call[t].pc \in Asked /\ call[t].req.name = n /\ s \in call[t].req.ids

\* The client has a list of its own with the service on it, and a caller that is
\* about to write the client knows.
Moved(n, s) ==
  /\ client[n] # None /\ ~client[n].inherits /\ s \in client[n].blocked
  /\ \A v \in Caller : call[v].pc \in Holding /\ call[v].req.name = n
                         => client[n] = call[v].base

KeptHolds ==
  \A t \in Tab, n \in Name, s \in Service :
    mig[t].pc \in Offered /\ <<n, s>> \in kept[t] => Waits(t, n, s) \/ Moved(n, s)

TabsMigrate ==
  \A t \in Tab : call[t].pc \in Asked => call[t].req.op = "migrate" /\ mig[t].pc = "apply"

MInv == IInv /\ TabsMigrate /\ KeptHolds

\* What is kept of an offer after a step was kept before it.
LEMMA KeptStep ==
  ASSUME KeptHolds,
         \A t \in Tab, n \in Name, s \in Service :
           mig'[t].pc \in Offered /\ <<n, s>> \in kept'[t] =>
             /\ mig[t].pc \in Offered /\ <<n, s>> \in kept[t]
             /\ Waits(t, n, s) => Waits(t, n, s)' \/ Moved(n, s)'
             /\ Moved(n, s) => Moved(n, s)'
  PROVE  KeptHolds'
  BY DEF KeptHolds

LEMMA ForgetIs ==
  ASSUME NEW P, Forget(P), NEW t \in Tab, NEW q, q \in kept'[t]
  PROVE  q \in kept[t] /\ q \notin P
  BY DEF Forget

LEMMA MCallInv == ASSUME MInv, NEW r \in Requests, Call(r) PROVE TabsMigrate' /\ KeptHolds'
  <1>1. Engine \in Caller /\ TypeOK /\ Sound(r) /\ Tab \subseteq Caller \ {Engine}
    BY RequestsSound, CallerAssumption DEF Caller, MInv, IInv
  <1>2. call'[Engine].pc = "wait" /\ \A v \in Caller \ {Engine} : call'[v] = call[v]
    BY <1>1, AskIs DEF Call
  <1>3. UNCHANGED <<client, mig, kept>>
    BY DEF Call
  <1>4. \A v \in Caller : call'[v].pc \in Holding => call'[v] = call[v]
    BY <1>2 DEF Holding
  <1>5. TabsMigrate'
    BY <1>1, <1>2, <1>3 DEF TabsMigrate, MInv
  <1>6. KeptHolds'
    BY <1>1, <1>2, <1>3, <1>4 DEF MInv, KeptHolds, Waits, Moved
  <1> QED
    BY <1>5, <1>6

LEMMA MReadInv == ASSUME MInv, NEW w \in Caller, Read(w) PROVE TabsMigrate' /\ KeptHolds'
  <1>1. TypeOK /\ SoundCall(call[w]) /\ IInv /\ Tab \subseteq Caller /\ call[w].pc = "wait"
    BY DEF MInv, IInv, Caller, Read, At
  <1>2. UNCHANGED <<client, mig, kept>>
    BY DEF Read
  <1>3. CASE Answer(w, "error")
    <2>1. call'[w].pc = "error" /\ \A v \in Caller \ {w} : call'[v] = call[v]
      BY <1>1, <1>3, AnswerIs
    <2>2. TabsMigrate'
      BY <1>1, <1>2, <2>1 DEF MInv, TabsMigrate, Asked
    <2>3. \A v \in Caller : call'[v].pc \in Holding => call'[v] = call[v]
      BY <2>1 DEF Holding
    <2>4. KeptHolds'
      BY <1>1, <1>2, <2>1, <2>3 DEF MInv, KeptHolds, Waits, Moved
    <2> QED
      BY <2>2, <2>4
  <1>4. CASE /\ Skips(call[w].req, client[call[w].req.name])
             /\ Answer(w, "ok")
    <2>1. call'[w].pc = "ok" /\ \A v \in Caller \ {w} : call'[v] = call[v]
      BY <1>1, <1>4, AnswerIs
    <2>2. w \notin Tab
      BY <1>1, <1>4 DEF MInv, TabsMigrate, Asked, Skips
    <2>3. TabsMigrate'
      BY <1>1, <1>2, <2>1, <2>2 DEF MInv, TabsMigrate
    <2>4. \A v \in Caller : call'[v].pc \in Holding => call'[v] = call[v]
      BY <2>1 DEF Holding
    <2>5. KeptHolds'
      BY <1>1, <1>2, <2>1, <2>2, <2>4 DEF MInv, KeptHolds, Waits, Moved
    <2> QED
      BY <2>3, <2>5
  <1>5. CASE /\ ~Refuses(call[w].req)
             /\ call' = [call EXCEPT
                    ![w].pc = IF ReadsGlobal(call[w].req, client[call[w].req.name])
                              THEN "global" ELSE "post",
                    ![w].base = client[call[w].req.name]]
    <2>1. /\ call'[w].pc \in Holding /\ call'[w].req = call[w].req
          /\ call'[w].base = client[call[w].req.name]
          /\ \A v \in Caller \ {w} : call'[v] = call[v]
      BY <1>1, <1>5, ReadKeeps DEF Read
    <2>2. TabsMigrate'
      BY <1>1, <1>2, <2>1 DEF MInv, TabsMigrate, Asked, Holding
    <2>3. \A t \in Tab, n \in Name, s \in Service : Waits(t, n, s) => Waits(t, n, s)'
      BY <1>1, <1>2, <2>1 DEF Waits, Asked, Holding
    <2>4. \A n \in Name, s \in Service : Moved(n, s) => Moved(n, s)'
      BY <1>2, <2>1 DEF Moved
    <2> QED
      BY <1>2, <2>2, <2>3, <2>4, KeptStep DEF MInv
  <1> QED
    BY <1>3, <1>4, <1>5 DEF Read

LEMMA MReadGlobalInv ==
  ASSUME MInv, NEW w \in Caller, ReadGlobal(w)
  PROVE  TabsMigrate' /\ KeptHolds'
  <1>1. /\ TypeOK /\ Tab \subseteq Caller /\ call[w].pc = "global"
        /\ call \in [Caller -> CallRecord]
    BY CallTypes DEF MInv, IInv, Caller, ReadGlobal, At
  <1>2. UNCHANGED <<client, mig, kept>>
    BY DEF ReadGlobal
  <1>3. /\ call'[w].pc \in {"post", "error"}
        /\ call'[w].pc = "post" => call'[w].req = call[w].req /\ call'[w].base = call[w].base
        /\ \A v \in Caller \ {w} : call'[v] = call[v]
    <2>1. CASE call' = [call EXCEPT ![w].pc = "post", ![w].global = globalList]
      BY <1>1, <2>1 DEF CallRecord
    <2>2. CASE Answer(w, "error")
      BY <1>1, <2>2, AnswerIs
    <2> QED
      BY <2>1, <2>2 DEF ReadGlobal
  <1>4. TabsMigrate'
    BY <1>1, <1>2, <1>3 DEF MInv, TabsMigrate, Asked
  <1>5. \A t \in Tab, n \in Name, s \in Service : Waits(t, n, s) => Waits(t, n, s)'
    BY <1>1, <1>2, <1>3 DEF Waits, Asked
  <1>6. \A n \in Name, s \in Service : Moved(n, s) => Moved(n, s)'
    BY <1>1, <1>2, <1>3 DEF Moved, Holding
  <1> QED
    BY <1>2, <1>4, <1>5, <1>6, KeptStep DEF MInv

\* A write leaves what others have moved, but for what it lifts.
LEMMA WriteKeeps ==
  ASSUME MInv, NEW w \in Caller, At(w, "post"), client' = Stored(Body(w)),
         NEW n \in Name, NEW s \in Service, Moved(n, s), <<n, s>> \notin Lifts(call[w].req)
  PROVE  client'[n] # None /\ ~client'[n].inherits /\ s \in client'[n].blocked
  <1> DEFINE r == call[w].req
  <1>1. TypeOK /\ SoundCall(call[w]) /\ Sound(r) /\ Body(w) \in Post
    BY BodyType DEF MInv, IInv, SoundCall, At, Asked
  <1>2. Body(w).name = r.name /\ Body(w).to = r.to
    BY DEF Body
  <1>3. CASE n \notin {r.name, r.to}
    BY <1>1, <1>2, <1>3, StoredType DEF Moved
  <1>4. CASE n \in {r.name, r.to}
    <2>1. r.op \in {"remove", "add", "adopt", "migrate"}
      BY <1>1, <1>4 DEF Lifts, Sound, Request, Op
    <2>2. n = r.name /\ r.to = r.name
      BY <1>1, <1>4, <2>1 DEF Sound
    <2>3. client[n] = call[w].base /\ call[w].base \in Object
      BY <1>1, <2>1, <2>2 DEF Moved, At, Holding, SoundCall
    <2>4. client'[n] = Edited(r, client[n], call[w].global)
      BY <1>1, <1>2, <2>1, <2>2, <2>3, CallTypes DEF Stored, Body
    <2>5. client'[n] # None
      BY <1>1, <2>3, <2>4, EditedType, CallTypes, NoneAssumption DEF CallRecord
    <2>6. client[n] \in Object /\ ~client[n].inherits /\ s \in client[n].blocked
      BY <2>3 DEF Moved
    <2>7. CASE r.op = "remove"
      <3>1. Edited(r, client[n], call[w].global) = [client[n] EXCEPT !.blocked = @ \ r.ids]
        BY <2>7 DEF Edited
      <3>2. s \notin r.ids
        BY <2>2, <2>7 DEF Lifts
      <3> QED
        BY <2>4, <2>5, <2>6, <3>1, <3>2 DEF Object
    <2>8. CASE r.op = "add"
      <3>1. Edited(r, client[n], call[w].global) = [client[n] EXCEPT !.blocked = @ \cup r.ids]
        BY <2>8 DEF Edited
      <3> QED
        BY <2>4, <2>5, <2>6, <3>1 DEF Object
    <2>9. CASE r.op = "adopt"
      <3>1. Edited(r, client[n], call[w].global)
              = [client[n] EXCEPT !.blocked = @ \cup r.ids, !.inherits = FALSE]
        BY <2>6, <2>9 DEF Edited, Object
      <3> QED
        BY <2>4, <2>5, <2>6, <3>1 DEF Object
    <2>10. CASE r.op = "migrate"
      <3>1. Edited(r, client[n], call[w].global)
              = [client[n] EXCEPT !.blocked = r.ids, !.inherits = FALSE]
        BY <2>10 DEF Edited
      <3>2. s \in r.ids
        BY <2>2, <2>10 DEF Lifts
      <3> QED
        BY <2>4, <2>5, <2>6, <3>1, <3>2 DEF Object
    <2> QED
      BY <2>1, <2>7, <2>8, <2>9, <2>10
  <1> QED
    BY <1>3, <1>4

\* The request's own write moves the pair.
LEMMA MigrateMoves ==
  ASSUME MInv, NEW t \in Tab, At(t, "post"), client' = Stored(Body(t)),
         NEW s \in call[t].req.ids
  PROVE  /\ client'[call[t].req.name] # None /\ ~client'[call[t].req.name].inherits
         /\ s \in client'[call[t].req.name].blocked
  <1> DEFINE r == call[t].req
             b == call[t].base
             G == call[t].global
  <1>1. t \in Caller /\ TypeOK
    BY DEF Caller, MInv, IInv
  <1>2. call[t] \in CallRecord /\ SoundCall(call[t]) /\ r.op = "migrate" /\ Sound(r)
    BY <1>1, CallTypes DEF MInv, IInv, TabsMigrate, At, Asked, SoundCall
  <1>3. r.name \in Name /\ r.to = r.name /\ b \in Object /\ G \in SUBSET Service
    BY <1>2 DEF Sound, Request, SoundCall, At, Holding, CallRecord
  <1>4. client'[r.name] = Edited(r, b, G)
    BY <1>1, <1>2, <1>3, CallTypes DEF Stored, Body
  <1>5. Edited(r, b, G) # None
    BY <1>2, <1>3, EditedType, NoneAssumption
  <1>6. Edited(r, b, G) = [b EXCEPT !.blocked = r.ids, !.inherits = FALSE]
    BY <1>2 DEF Edited
  <1> QED
    BY <1>3, <1>4, <1>5, <1>6 DEF Object

LEMMA MWriteInv == ASSUME MInv, NEW w \in Caller, Write(w) PROVE TabsMigrate' /\ KeptHolds'
  <1>1. TypeOK /\ Tab \subseteq Caller /\ At(w, "post") /\ UNCHANGED mig
    BY DEF MInv, IInv, Caller, Write
  <1>2. PICK how \in {"ok", "error"} : Answer(w, how)
    BY DEF Write
  <1>3. call'[w].pc = how /\ \A v \in Caller \ {w} : call'[v] = call[v]
    BY <1>1, <1>2, AnswerIs
  <1>4. \A v \in Caller : call'[v].pc \notin Holding
    <2>1. \A v \in Caller \ {w} : call[v].pc \notin Holding
      BY <1>1 DEF TypeOK, At, Holding
    <2> QED
      BY <1>3, <2>1 DEF Holding
  <1>5. TabsMigrate'
    BY <1>1, <1>3 DEF MInv, TabsMigrate, Asked
  <1>6. CASE client' = Stored(Body(w)) /\ Forget(Lifts(call[w].req))
    <2> SUFFICES ASSUME NEW t \in Tab, NEW n \in Name, NEW s \in Service,
                        <<n, s>> \in kept'[t]
                 PROVE  /\ <<n, s>> \in kept[t]
                        /\ Waits(t, n, s) => Waits(t, n, s)' \/ Moved(n, s)'
                        /\ Moved(n, s) => Moved(n, s)'
      BY <1>1, <1>5, KeptStep DEF MInv
    <2>1. <<n, s>> \in kept[t] /\ <<n, s>> \notin Lifts(call[w].req)
      BY <1>6, ForgetIs
    <2>2. ASSUME Moved(n, s) PROVE Moved(n, s)'
      BY <1>1, <1>4, <1>6, <2>1, <2>2, WriteKeeps DEF Moved
    <2>3. ASSUME Waits(t, n, s) PROVE Waits(t, n, s)' \/ Moved(n, s)'
      <3>1. CASE t # w
        BY <1>1, <1>3, <2>3, <3>1 DEF Waits
      <3>2. CASE t = w /\ call[t].req.name = n /\ s \in call[t].req.ids
        BY <1>1, <1>4, <1>6, <3>2, MigrateMoves DEF Moved
      <3>3. CASE t = w /\ ~(call[t].req.name = n /\ s \in call[t].req.ids)
        BY <1>1, <2>3, <3>3 DEF Waits, At
      <3> QED
        BY <3>1, <3>2, <3>3
    <2> QED
      BY <2>1, <2>2, <2>3
  <1>7. CASE Answer(w, "error") /\ UNCHANGED <<client, kept>>
    <2>1. call'[w].pc = "error"
      BY <1>1, <1>7, AnswerIs
    <2>2. \A t \in Tab, n \in Name, s \in Service : Waits(t, n, s) => Waits(t, n, s)'
      BY <1>1, <1>3, <2>1 DEF Waits
    <2>3. \A n \in Name, s \in Service : Moved(n, s) => Moved(n, s)'
      BY <1>4, <1>7 DEF Moved
    <2> QED
      BY <1>1, <1>5, <1>7, <2>2, <2>3, KeptStep DEF MInv
  <1> QED
    BY <1>6, <1>7 DEF Write

\* What others change they lift, and the calls are where they were.
LEMMA MOutsideInv ==
  ASSUME MInv, UNCHANGED <<call, mig>>, NEW P, Forget(P),
         \A n \in Name, s \in Service : <<n, s>> \notin P => client'[n] = client[n]
                                                              \/ ~Moved(n, s)
  PROVE  TabsMigrate' /\ KeptHolds'
  <1>1. TabsMigrate'
    BY DEF MInv, TabsMigrate
  <1> SUFFICES ASSUME NEW t \in Tab, NEW n \in Name, NEW s \in Service, <<n, s>> \in kept'[t]
               PROVE  /\ <<n, s>> \in kept[t]
                      /\ Waits(t, n, s) => Waits(t, n, s)'
                      /\ Moved(n, s) => Moved(n, s)'
    BY <1>1, KeptStep DEF MInv
  <1>2. <<n, s>> \in kept[t] /\ <<n, s>> \notin P
    BY ForgetIs
  <1>3. Waits(t, n, s) => Waits(t, n, s)'
    BY DEF Waits
  <1>4. Moved(n, s) => Moved(n, s)'
    BY <1>2 DEF Moved
  <1> QED
    BY <1>2, <1>3, <1>4

LEMMA MOthersInv ==
  ASSUME MInv,
         \/ \E p \in late : WriteLate(p)
         \/ \E n \in Name, o \in Object \cup {None} : UIClient(n, o)
         \/ \E G \in SUBSET Service : UIGlobal(G)
  PROVE  TabsMigrate' /\ KeptHolds'
  <1>1. TypeOK /\ client \in [Name -> Object \cup {None}]
    BY CallTypes DEF MInv, IInv
  <1>2. ASSUME NEW p \in late, WriteLate(p) PROVE TabsMigrate' /\ KeptHolds'
    <2>1. p \in Post
      BY <1>1 DEF TypeOK
    <2>2. \A n \in Name \ {p.name, p.to} : client'[n] = client[n]
      BY <1>1, <1>2, <2>1, StoredType DEF WriteLate
    <2>3. \A n \in Name, s \in Service :
            <<n, s>> \notin {p.name, p.to} \X Service => client'[n] = client[n]
      BY <2>2
    <2> QED
      BY <1>2, <2>3, MOutsideInv DEF WriteLate
  <1>3. ASSUME NEW n \in Name, NEW o \in Object \cup {None}, UIClient(n, o)
        PROVE  TabsMigrate' /\ KeptHolds'
    <2>1. \A m \in Name, s \in Service : <<m, s>> \notin {n} \X Service => client'[m] = client[m]
      BY <1>1, <1>3 DEF UIClient
    <2> QED
      BY <1>3, <2>1, MOutsideInv DEF UIClient
  <1>4. ASSUME NEW G \in SUBSET Service, UIGlobal(G) PROVE TabsMigrate' /\ KeptHolds'
    <2>1. UNCHANGED client
      BY <1>4 DEF UIGlobal
    <2> QED
      BY <1>4, <2>1, MOutsideInv DEF UIGlobal
  <1> QED
    BY <1>2, <1>3, <1>4

LEMMA MMigrationInv ==
  ASSUME MInv, NEW t \in Tab, Migration(t)
  PROVE  TabsMigrate' /\ KeptHolds'
  <1>1. IInv /\ TypeOK /\ Tab \subseteq Caller /\ mig \in [Tab -> MigRecord]
    BY CallTypes DEF MInv, IInv, Caller
  <1>2. UNCHANGED client /\ \A u \in Tab \ {t} : mig'[u] = mig[u]
    BY <1>1 DEF Migration, MigrationRead, MigrationOffer, MigrationCall, MigrationAnswer,
            MigrationDone, MigGoto
  <1>3. ASSUME mig[t].pc = "new" \/ mig[t].pc = "global", TypeOK
        PROVE  call[t].pc \notin Asked
    BY <1>3 DEF MInv, TabsMigrate
  <1>4. ASSUME NEW M \in SUBSET Name, MigrationRead(t, M) PROVE TabsMigrate' /\ KeptHolds'
    <2>1. mig'[t].pc \in {"global", "failed"} /\ UNCHANGED <<call, kept>>
      <3>1. [NewMig EXCEPT !.pc = "failed"].pc = "failed"
        BY DEF NewMig
      <3> QED
        BY <1>1, <1>4, <3>1 DEF MigrationRead, MigGoto, MigRecord
    <2>2. TabsMigrate'
      BY <1>1, <1>2, <1>3, <1>4, <2>1 DEF MInv, TabsMigrate, MigrationRead
    <2>3. KeptHolds'
      BY <1>2, <2>1 DEF MInv, KeptHolds, Waits, Moved, Offered
    <2> QED
      BY <2>2, <2>3
  <1>5. CASE MigrationOffer(t)
    <2> DEFINE seen    == mig[t].seen
               present == {n \in Name : seen[n] # None}
               inh     == {n \in present : seen[n].inherits}
               own     == [n \in present |-> seen[n].blocked]
               adg     == [present |-> present, global |-> globalList,
                           inherits |-> inh, own |-> own]
               steps   == Offer(adg, present)
               K       == {st.client : st \in steps} \X globalList
    <2>1. \A st \in steps : globalList \subseteq st.target
      <3> HIDE DEF own, inh, present
      <3> SUFFICES ASSUME NEW x \in steps PROVE globalList \subseteq x.target
        OBVIOUS
      <3>1. PICK c \in present : x = [client |-> c, target |-> own[c] \cup globalList]
        BY DEF Offer
      <3> QED
        BY <3>1
    <2>2. \/ /\ mig' = [mig EXCEPT ![t] = [NewMig EXCEPT !.pc = "apply", !.steps = steps]]
             /\ kept' = [kept EXCEPT ![t] = K]
          \/ MigGoto(t, "failed") /\ UNCHANGED kept
      BY <1>5 DEF MigrationOffer
    <2>3. UNCHANGED call /\ call[t].pc \notin Asked
      BY <1>1, <1>3, <1>5 DEF MigrationOffer
    <2> HIDE DEF steps
    <2>4. [NewMig EXCEPT !.pc = "apply", !.steps = steps].steps = steps
      BY DEF NewMig
    <2>5. [NewMig EXCEPT !.pc = "apply", !.steps = steps].pc = "apply"
      BY DEF NewMig
    <2>6. [NewMig EXCEPT !.pc = "failed"].pc = "failed"
      BY DEF NewMig
    <2>7. \/ mig'[t].pc = "apply" /\ mig'[t].steps = steps /\ kept'[t] = K
          \/ mig'[t].pc = "failed"
      BY <1>1, <2>2, <2>4, <2>5, <2>6 DEF MigGoto, TypeOK
    <2>8. \A u \in Tab \ {t} : kept'[u] = kept[u]
      BY <1>1, <2>2 DEF TypeOK
    <2>9. TabsMigrate'
      BY <1>1, <1>2, <2>3 DEF MInv, TabsMigrate
    <2>10. \A n \in Name, s \in Service :
             mig'[t].pc \in Offered /\ <<n, s>> \in kept'[t] => Waits(t, n, s)'
      BY <2>1, <2>7 DEF Waits, Offered
    <2>11. \A u \in Tab \ {t}, n \in Name, s \in Service :
             mig'[u].pc \in Offered /\ <<n, s>> \in kept'[u] => Waits(u, n, s)' \/ Moved(n, s)'
      BY <1>2, <2>3, <2>8 DEF MInv, KeptHolds, Waits, Moved
    <2> QED
      BY <2>9, <2>10, <2>11 DEF KeptHolds
  <1>6. ASSUME NEW st \in mig[t].steps, MigrationCall(t, st) PROVE TabsMigrate' /\ KeptHolds'
    <2> DEFINE r == [For("migrate", st.client) EXCEPT !.ids = st.target]
    <2>1. r.op = "migrate" /\ r.name = st.client /\ r.ids = st.target
      BY DEF For
    <2>2. st \in Step
      BY <1>1 DEF MigRecord
    <2>3. Sound(r)
      BY <2>2 DEF Sound, For, Request, Step
    <2> HIDE DEF r
    <2>4. /\ call'[t].pc = "wait" /\ call'[t].req = r
          /\ \A v \in Caller \ {t} : call'[v] = call[v]
      BY <1>1, <1>6, <2>3, AskIs DEF MigrationCall, r
    <2>5. /\ mig'[t].pc = "apply" /\ mig[t].pc = "apply" /\ mig'[t].steps = mig[t].steps \ {st}
          /\ call[t].pc = "idle" /\ UNCHANGED kept
      BY <1>1, <1>6 DEF MigrationCall, MigRecord, At
    <2>6. TabsMigrate'
      BY <1>1, <1>2, <2>1, <2>4, <2>5 DEF MInv, TabsMigrate
    <2>7. \A n \in Name, s \in Service : Waits(t, n, s) => Waits(t, n, s)'
      BY <2>1, <2>4, <2>5 DEF Waits, Asked
    <2>8. \A u \in Tab \ {t}, n \in Name, s \in Service : Waits(u, n, s) => Waits(u, n, s)'
      BY <1>1, <1>2, <2>4 DEF Waits
    <2>9. \A n \in Name, s \in Service : Moved(n, s) => Moved(n, s)'
      BY <1>2, <2>4 DEF Moved, Holding
    <2>10. \A u \in Tab : mig'[u].pc \in Offered => mig[u].pc \in Offered
      BY <1>2, <2>5
    <2> QED
      BY <2>5, <2>6, <2>7, <2>8, <2>9, <2>10, KeptStep DEF MInv
  <1>7. CASE MigrationAnswer(t)
    <2>1. call'[t].pc = "idle" /\ \A v \in Caller \ {t} : call'[v] = call[v]
      BY <1>1, <1>7, MigrationAnswerIs
    <2>2. TabsMigrate'
      BY <1>1, <1>2, <2>1 DEF MInv, TabsMigrate, Asked
    <2>3. \A n \in Name, s \in Service : Moved(n, s) => Moved(n, s)'
      BY <1>2, <2>1 DEF Moved, Holding
    <2>4. \A u \in Tab \ {t}, n \in Name, s \in Service : Waits(u, n, s) => Waits(u, n, s)'
      BY <1>1, <1>2, <2>1 DEF Waits
    <2>5. CASE call[t].pc = "ok"
      <3>1. UNCHANGED <<mig, kept>>
        BY <1>7, <2>5 DEF MigrationAnswer, At
      <3>2. \A n \in Name, s \in Service : Waits(t, n, s) => Waits(t, n, s)'
        BY <2>5, <3>1 DEF Waits, Asked
      <3> QED
        BY <2>2, <2>3, <2>4, <3>1, <3>2, KeptStep DEF MInv
    <2>6. CASE call[t].pc # "ok"
      <3>1. [NewMig EXCEPT !.pc = "failed"].pc = "failed"
        BY DEF NewMig
      <3>2. mig'[t].pc = "failed" /\ UNCHANGED kept
        BY <1>1, <1>7, <2>6, <3>1 DEF MigrationAnswer, At, MigGoto
      <3> QED
        BY <1>2, <2>2, <2>3, <2>4, <3>2, KeptStep DEF MInv, Offered
    <2> QED
      BY <2>5, <2>6
  <1>8. CASE MigrationDone(t)
    <2>1. [NewMig EXCEPT !.pc = "done"].pc = "done"
      BY DEF NewMig
    <2>2. /\ mig'[t].pc = "done" /\ UNCHANGED <<call, kept>> /\ call[t].pc = "idle"
          /\ mig[t].pc = "apply" /\ mig[t].steps = {}
      BY <1>1, <1>8, <2>1 DEF MigrationDone, MigGoto, At
    <2>3. TabsMigrate'
      BY <1>2, <2>2 DEF MInv, TabsMigrate, Asked
    <2>4. \A n \in Name, s \in Service : ~Waits(t, n, s)
      BY <2>2 DEF Waits, Asked
    <2>5. \A u \in Tab \ {t}, n \in Name, s \in Service : Waits(u, n, s) => Waits(u, n, s)'
      BY <1>2, <2>2 DEF Waits
    <2>6. \A n \in Name, s \in Service : Moved(n, s) => Moved(n, s)'
      BY <1>2, <2>2 DEF Moved
    <2>7. \A u \in Tab : mig'[u].pc \in Offered => mig[u].pc \in Offered
      BY <1>2, <2>2 DEF Offered
    <2> QED
      BY <2>2, <2>3, <2>4, <2>5, <2>6, <2>7, KeptStep DEF MInv
  <1> QED
    BY <1>4, <1>5, <1>6, <1>7, <1>8 DEF Migration

LEMMA MInitInv == Init => MInv
  <1> SUFFICES ASSUME Init PROVE MInv
    OBVIOUS
  <1>1. \A t \in Tab : mig[t].pc = "new" /\ call[t].pc = "idle"
    BY NoCallType, NewMigType DEF Init, Caller
  <1> QED
    BY <1>1, InitInv DEF MInv, TabsMigrate, KeptHolds, Asked, Offered

LEMMA MInvStep == MInv /\ [Next]_vars => MInv'
  <1> SUFFICES ASSUME MInv, [Next]_vars PROVE MInv'
    OBVIOUS
  <1>1. IInv'
    BY InvStep DEF MInv
  <1>2. CASE UNCHANGED vars
    BY <1>1, <1>2 DEF vars, MInv, TabsMigrate, KeptHolds, Waits, Moved
  <1>3. CASE Next
    <2>1. TabsMigrate' /\ KeptHolds'
      BY <1>3, MCallInv, MReadInv, MReadGlobalInv, MWriteInv, MMigrationInv, MOthersInv DEF Next
    <2> QED
      BY <1>1, <2>1 DEF MInv
  <1> QED
    BY <1>2, <1>3

\* For any number of migration requests beside the engine: a request that
\* answered "done" has given every client of its offer a list of its own with
\* all it blocked then, but for what was lifted since (handleMigrationApply).
THEOREM MigrationsHold == Spec => []MigrationHolds
  <1>1. MInv => MigrationHolds
    <2> SUFFICES ASSUME MInv, NEW t \in Tab, mig[t].pc = "done", NEW q \in kept[t]
                 PROVE  /\ client[q[1]] # None /\ ~client[q[1]].inherits
                        /\ q[2] \in client[q[1]].blocked
      BY DEF MigrationHolds
    <2>1. PICK n \in Name, s \in Service : q = <<n, s>>
      BY DEF MInv, IInv, TypeOK
    <2>2. Moved(n, s)
      BY <2>1 DEF MInv, KeptHolds, Waits, Offered
    <2> QED
      BY <2>1, <2>2 DEF Moved
  <1> QED
    BY <1>1, MInitInv, MInvStep, PTL DEF Spec
=============================================================================

--------------------------- MODULE WorkExchangeProofs ---------------------------
(* Theorems about the queues that work comes in by and its events go out by. *)
EXTENDS MCWorkExchange, TaskRunsProofs

-----------------------------------------------------------------------------
(* StreamDelivery: the inductive invariant *)

StreamTypes ==
    /\ sent \in [StreamEvents -> [
           status : {"absent", "pending", "processing", "settled", "dead_letter"},
           tries : 0..DeliveryTries, waits : BOOLEAN, holder : Deliverers \cup {NoStream},
           live : BOOLEAN]]
    /\ batch \in [Deliverers -> SUBSET StreamEvents]
    /\ calling \in [Deliverers -> [stream : Streams \cup {NoStream}, ok : BOOLEAN]]
    /\ reached \subseteq StreamEvents

\* Only what is in delivery has a lease, and only a dead letter has had all its tries.
RowLeased(row) ==
    /\ (row.holder # NoStream) = (row.status = "processing")
    /\ row.status # "dead_letter" => row.tries < DeliveryTries
Leased == \A e \in StreamEvents : RowLeased(sent[e])

\* A worker has with an event all that comes before it and is not settled, under one lease.
BatchWhole(w) ==
    \A e \in batch[w] : \A o \in Earlier(e) :
        /\ o \in batch[w] \/ o \in reached
        /\ Token(w, e) => \/ sent[o].status = "settled"
                          \/ o \in batch[w] /\ Token(w, o) /\ sent[o].live = sent[e].live

\* An answer says yes only to what the adapter was given, while its worker has the batch.
AnswerTrue(w) ==
    /\ calling[w].ok => GroupOf(w, calling[w].stream) \subseteq reached
    /\ batch[w] = {} => calling[w] = Quiet

StreamInv ==
    /\ StreamTypes /\ Leased
    /\ \A w \in Deliverers : BatchWhole(w) /\ AnswerTrue(w)
    /\ StreamInOrder

-----------------------------------------------------------------------------
(* StreamDelivery: its steps *)

LEMMA EarlierEvents ==
    ASSUME NEW e \in StreamEvents
    PROVE  /\ Earlier(e) \subseteq StreamEvents
           /\ e \notin Earlier(e)
           /\ \A o \in Earlier(e) : o[1] = e[1] /\ Earlier(o) \subseteq Earlier(e)
  <1>1. e[1] \in Streams /\ e[2] \in 1..StreamLength /\ StreamLength \in Nat
    BY StreamDeliveryAssumption DEF StreamEvents, Positions
  <1>2. ASSUME NEW o \in Earlier(e)
        PROVE  o \in StreamEvents /\ o[1] = e[1] /\ Earlier(o) \subseteq Earlier(e) /\ o # e
    BY <1>1, <1>2 DEF StreamEvents, Positions, Earlier
  <1> QED
    BY <1>2

LEMMA AppendKeeps ==
    ASSUME StreamInv, NEW e \in StreamEvents, AppendToStream(e)
    PROVE  StreamInv'
  <1>1. PICK s \in {"pending", "dead_letter"} : sent' = [sent EXCEPT ![e].status = s]
    BY DEF AppendToStream
  <1>2. UNCHANGED <<batch, calling, reached>> /\ sent[e].status = "absent"
    BY DEF AppendToStream
  <1>3. StreamTypes'
    BY <1>1, <1>2 DEF StreamInv, StreamTypes
  <1>8. Leased'
    <2>1. sent[e].holder = NoStream /\ sent[e].tries < DeliveryTries
      BY <1>2 DEF StreamInv, Leased, RowLeased
    <2> QED
      BY <1>1, <2>1 DEF StreamInv, StreamTypes, Leased, RowLeased
  <1>4. \A o \in StreamEvents : o # e => sent'[o] = sent[o]
    BY <1>1 DEF StreamInv, StreamTypes
  <1>5. sent'[e].status = s
    BY <1>1 DEF StreamInv, StreamTypes
  <1>6. ASSUME NEW w \in Deliverers PROVE BatchWhole(w)' /\ AnswerTrue(w)'
    <2>1. ASSUME NEW x \in StreamEvents, Token(w, x)' PROVE x # e
      BY <1>5, <2>1 DEF Token
    <2>2. \A o \in StreamEvents : sent[o].status = "settled" => o # e
      BY <1>2
    <2>3. batch[w] \subseteq StreamEvents
      BY DEF StreamInv, StreamTypes
    <2>4. \A o \in StreamEvents : Token(w, o) => o # e
      BY <1>2 DEF Token
    <2>5. BatchWhole(w)'
      BY <1>2, <1>4, <2>1, <2>2, <2>3, <2>4, EarlierEvents DEF StreamInv, BatchWhole, Token
    <2> QED
      BY <1>2, <2>5 DEF StreamInv, AnswerTrue, GroupOf
  <1>7. StreamInOrder'
    BY <1>2, <1>4, <1>5, EarlierEvents DEF StreamInv, StreamInOrder
  <1> QED
    BY <1>3, <1>6, <1>7, <1>8 DEF StreamInv
\* A claim takes with an event what is still to come before it.
LEMMA ClaimsKeep ==
    ASSUME StreamInv, NEW v \in Deliverers, ClaimDeliveries(v)
    PROVE  StreamInv'
  <1> DEFINE deliverable == {e \in StreamEvents : Deliverable(e)}
  <1>1. PICK s \in FirstOf(deliverable) :
          /\ sent' = [e \in StreamEvents |->
                 IF e \in s
                 THEN [Retaken[e] EXCEPT !.status = "processing", !.holder = v, !.live = TRUE]
                 ELSE Retaken[e]]
          /\ batch' = [batch EXCEPT ![v] = s]
    BY DEF ClaimDeliveries
  <1>2. UNCHANGED <<calling, reached>> /\ batch[v] = {}
    BY DEF ClaimDeliveries
  <1>3. /\ s \subseteq StreamEvents /\ \A e \in s : Deliverable(e)
        /\ \A e \in s : Earlier(e) \cap deliverable \subseteq s
    BY <1>1 DEF FirstOf
  <1> HIDE DEF deliverable
  <1>4. \A e \in StreamEvents : sent[e] \in [
           status : {"absent", "pending", "processing", "settled", "dead_letter"},
           tries : 0..DeliveryTries, waits : BOOLEAN, holder : Deliverers \cup {NoStream},
           live : BOOLEAN]
    BY DEF StreamInv, StreamTypes
  <1>5. ASSUME NEW e \in StreamEvents
        PROVE  /\ Retaken[e] \in [
                    status : {"absent", "pending", "processing", "settled", "dead_letter"},
                    tries : 0..DeliveryTries, waits : BOOLEAN,
                    holder : Deliverers \cup {NoStream}, live : BOOLEAN]
               /\ Retaken[e].status = "settled" <=> sent[e].status = "settled"
               /\ Retaken[e].status = "processing" => Retaken[e] = sent[e] /\ sent[e].live
               /\ sent[e].status = "processing" /\ sent[e].live => Retaken[e] = sent[e]
               /\ RowLeased(Retaken[e])
    <2>1. CASE sent[e].status = "processing" /\ ~sent[e].live
      <3>1. Retaken[e] = [status |-> "pending", tries |-> sent[e].tries, waits |-> FALSE,
                          holder |-> NoStream, live |-> FALSE]
        BY <2>1 DEF Retaken, Unsent
      <3> QED
        BY <1>4, <2>1, <3>1 DEF StreamInv, Leased, RowLeased
    <2>2. CASE ~(sent[e].status = "processing" /\ ~sent[e].live)
      BY <1>4, <2>2 DEF Retaken, StreamInv, Leased
    <2> QED
      BY <2>1, <2>2
  <1>6. ASSUME NEW e \in StreamEvents
        PROVE  /\ sent'[e] \in [
                    status : {"absent", "pending", "processing", "settled", "dead_letter"},
                    tries : 0..DeliveryTries, waits : BOOLEAN,
                    holder : Deliverers \cup {NoStream}, live : BOOLEAN]
               /\ e \in s => sent'[e].status = "processing" /\ sent'[e].holder = v /\ sent'[e].live
                                /\ sent'[e].tries = Retaken[e].tries
               /\ e \notin s => sent'[e] = Retaken[e]
    BY <1>1, <1>5
  <1>7. \A e \in s : Retaken[e].status = "pending"
    BY <1>3 DEF Deliverable, Due
  <1>8. \A e \in StreamEvents : sent'[e].status = "settled" <=> sent[e].status = "settled"
    BY <1>3, <1>5, <1>6, <1>7
  <1>9. StreamTypes'
    BY <1>1, <1>2, <1>3, <1>6 DEF StreamInv, StreamTypes
  <1>14. Leased'
    BY <1>5, <1>6, <1>7, StreamDeliveryAssumption DEF Leased, RowLeased
  <1>10. StreamInOrder'
    BY <1>2, <1>8, EarlierEvents DEF StreamInv, StreamInOrder
  <1>11. BatchWhole(v)'
    <2>1. batch'[v] = s
      BY <1>1 DEF StreamInv, StreamTypes
    <2>2. ASSUME NEW e \in s, NEW o \in Earlier(e), o \notin s PROVE sent[o].status = "settled"
      <3>1. e \in StreamEvents /\ o \in StreamEvents /\ Deliverable(e) /\ o \notin deliverable
        BY <1>3, <2>2, EarlierEvents
      <3>2. ~Deliverable(o)
        BY <3>1 DEF deliverable
      <3>3. \A x \in Earlier(e) : Retaken[x].status = "settled" \/ Due(x)
        BY <3>1 DEF Deliverable
      <3>4. Earlier(o) \subseteq Earlier(e)
        BY <3>1, EarlierEvents
      <3>5. ~Due(o)
        BY <3>2, <3>3, <3>4 DEF Deliverable
      <3> QED
        BY <1>5, <3>1, <3>3, <3>5
    <2>3. \A o \in StreamEvents : sent[o].status = "settled" => o \in reached
      BY DEF StreamInv, StreamInOrder
    <2>4. \A e \in s : Earlier(e) \subseteq StreamEvents
      BY <1>3, EarlierEvents
    <2>5. \A o \in s : Token(v, o)' /\ sent'[o].live
      BY <1>3, <1>6 DEF Token
    <2>6. \A e \in s : \A o \in Earlier(e) :
             o \in s \/ (o \in reached /\ sent'[o].status = "settled")
      BY <1>8, <2>2, <2>3, <2>4
    <2> QED
      BY <1>2, <1>6, <1>3, <2>1, <2>5, <2>6 DEF BatchWhole
  <1>12. ASSUME NEW w \in Deliverers, w # v PROVE BatchWhole(w)'
    <2>1. batch'[w] = batch[w] /\ batch[w] \subseteq StreamEvents /\ BatchWhole(w)
      BY <1>1, <1>12 DEF StreamInv, StreamTypes
    <2>2. ASSUME NEW e \in StreamEvents, Token(w, e)'
          PROVE  Token(w, e) /\ sent[e].live /\ sent'[e] = sent[e]
      <3>1. e \notin s
        BY <1>6, <1>12, <2>2 DEF Token
      <3> QED
        BY <1>5, <1>6, <2>2, <3>1 DEF Token
    <2>3. ASSUME NEW e \in StreamEvents, Token(w, e), sent[e].live PROVE sent'[e] = sent[e]
      <3>1. Retaken[e] = sent[e]
        BY <1>5, <2>3 DEF Token
      <3>2. e \notin s
        BY <1>7, <2>3, <3>1 DEF Token
      <3> QED
        BY <1>6, <3>1, <3>2
    <2> SUFFICES ASSUME NEW e \in batch[w], NEW o \in Earlier(e)
                 PROVE  /\ o \in batch[w] \/ o \in reached
                        /\ Token(w, e)' => \/ sent'[o].status = "settled"
                                           \/ /\ o \in batch[w] /\ Token(w, o)'
                                              /\ sent'[o].live = sent'[e].live
      BY <1>2, <2>1 DEF BatchWhole
    <2>4. e \in StreamEvents /\ o \in StreamEvents
      BY <2>1, EarlierEvents
    <2> QED
      BY <1>8, <2>1, <2>2, <2>3, <2>4 DEF BatchWhole, Token
  <1>13. ASSUME NEW w \in Deliverers PROVE AnswerTrue(w)'
    <2>1. CASE w = v
      <3>1. calling'[w] = Quiet
        BY <1>2, <2>1 DEF StreamInv, AnswerTrue
      <3> QED
        BY <3>1 DEF AnswerTrue, Quiet
    <2>2. CASE w # v
      <3>1. batch'[w] = batch[w]
        BY <1>1, <2>2 DEF StreamInv, StreamTypes
      <3> QED
        BY <1>2, <3>1 DEF StreamInv, AnswerTrue, GroupOf
    <2> QED
      BY <2>1, <2>2
  <1> QED
    BY <1>9, <1>10, <1>11, <1>12, <1>13, <1>14 DEF StreamInv
LEMMA CallKeeps ==
    ASSUME StreamInv, NEW v \in Deliverers, CallAdapter(v)
    PROVE  StreamInv'
  <1>1. PICK r \in Streams, took \in BOOLEAN, ok \in BOOLEAN :
          /\ GroupOf(v, r) # {}
          /\ ok => took
          /\ reached' = IF took THEN reached \cup GroupOf(v, r) ELSE reached
          /\ calling' = [calling EXCEPT ![v] = [stream |-> r, ok |-> ok]]
    BY DEF CallAdapter
  <1>2. UNCHANGED <<sent, batch>>
    BY DEF CallAdapter
  <1>3. GroupOf(v, r) \subseteq StreamEvents /\ reached \subseteq reached'
    BY <1>1 DEF StreamInv, StreamTypes, GroupOf
  <1>4. StreamTypes' /\ Leased'
    BY <1>1, <1>2, <1>3 DEF StreamInv, StreamTypes, Leased
  <1>5. ASSUME NEW w \in Deliverers PROVE BatchWhole(w)' /\ AnswerTrue(w)'
    <2>1. BatchWhole(w)'
      BY <1>2, <1>3 DEF StreamInv, BatchWhole, Token
    <2>2. CASE w = v
      <3>1. calling'[w] = [stream |-> r, ok |-> ok]
        BY <1>1, <2>2 DEF StreamInv, StreamTypes
      <3>2. batch'[w] # {}
        <4>1. PICK e : e \in GroupOf(v, r)
          BY <1>1
        <4> QED
          BY <1>2, <2>2, <4>1 DEF GroupOf
      <3> QED
        BY <1>1, <1>2, <2>1, <2>2, <3>1, <3>2 DEF AnswerTrue, GroupOf
    <2>3. CASE w # v
      <3>1. calling'[w] = calling[w]
        BY <1>1, <2>3 DEF StreamInv, StreamTypes
      <3> QED
        BY <1>2, <1>3, <2>1, <3>1 DEF StreamInv, AnswerTrue, GroupOf
    <2> QED
      BY <2>2, <2>3
  <1>6. ASSUME NEW e \in reached' PROVE Earlier(e) \subseteq reached'
    <2>1. CASE e \in reached
      BY <1>3, <2>1 DEF StreamInv, StreamInOrder
    <2>2. CASE e \notin reached
      <3>1. e \in GroupOf(v, r) /\ reached' = reached \cup GroupOf(v, r) /\ e \in StreamEvents
        BY <1>1, <1>3, <1>6, <2>2
      <3>2. ASSUME NEW o \in Earlier(e) PROVE o \in reached'
        BY <3>1, <3>2, EarlierEvents DEF StreamInv, BatchWhole, GroupOf
      <3> QED
        BY <3>2
    <2> QED
      BY <2>1, <2>2
  <1>7. StreamInOrder'
    BY <1>2, <1>3, <1>6 DEF StreamInv, StreamInOrder
  <1> QED
    BY <1>4, <1>5, <1>7 DEF StreamInv

LEMMA SettlesKeep ==
    ASSUME StreamInv, NEW v \in Deliverers, SettleGroup(v)
    PROVE  StreamInv'
  <1> DEFINE group == GroupOf(v, calling[v].stream)
             outcome(e) == IF calling[v].ok THEN Acknowledged(e) ELSE RetriedLater(e)
  <1>1. /\ sent' = [e \in StreamEvents |->
                       IF e \in group /\ Token(v, e) THEN outcome(e) ELSE sent[e]]
        /\ batch' = [batch EXCEPT ![v] = @ \ group]
        /\ calling' = [calling EXCEPT ![v] = Quiet]
        /\ reached' = reached
    BY DEF SettleGroup, SettlesGroup
  <1>2. group \subseteq StreamEvents
    BY DEF StreamInv, StreamTypes, GroupOf
  <1>3. ASSUME NEW e \in StreamEvents, Token(v, e)
        PROVE  /\ outcome(e) \in [
                    status : {"absent", "pending", "processing", "settled", "dead_letter"},
                    tries : 0..DeliveryTries, waits : BOOLEAN,
                    holder : Deliverers \cup {NoStream}, live : BOOLEAN]
               /\ RowLeased(outcome(e)) /\ outcome(e).status # "processing"
               /\ outcome(e).status = "settled" <=> calling[v].ok
    <2> DEFINE Row == [
             status : {"absent", "pending", "processing", "settled", "dead_letter"},
             tries : 0..DeliveryTries, waits : BOOLEAN, holder : Deliverers \cup {NoStream},
             live : BOOLEAN]
    <2>1. Unsent \in Row /\ Unsent.holder = NoStream /\ Unsent.tries = 0
      BY StreamDeliveryAssumption DEF Unsent
    <2>2. sent[e].tries + 1 \in 0..DeliveryTries
      BY <1>3, StreamDeliveryAssumption DEF StreamInv, StreamTypes, Leased, RowLeased, Token
    <2>3. CASE calling[v].ok
      <3>1. outcome(e) = [Unsent EXCEPT !.status = "settled"]
        BY <2>3 DEF Acknowledged
      <3> HIDE DEF outcome
      <3> QED
        BY <2>1, <2>3, <3>1, StreamDeliveryAssumption DEF RowLeased
    <2>4. CASE ~calling[v].ok
      <3> DEFINE tries == sent[e].tries + 1
                 s == IF tries >= DeliveryTries THEN "dead_letter" ELSE "pending"
      <3>1. outcome(e) = [Unsent EXCEPT !.status = s, !.tries = tries,
                                        !.waits = tries < DeliveryTries]
        BY <2>4 DEF RetriedLater
      <3>2. s \in {"dead_letter", "pending"} /\ (s # "dead_letter" => tries < DeliveryTries)
            /\ (tries < DeliveryTries) \in BOOLEAN
        BY <2>2, StreamDeliveryAssumption
      <3> HIDE DEF outcome, s, tries
      <3>3. tries \in 0..DeliveryTries
        BY <2>2 DEF tries
      <3> QED
        BY <2>1, <2>4, <3>1, <3>2, <3>3 DEF RowLeased
    <2> QED
      BY <2>3, <2>4
  <1>4. ASSUME NEW e \in StreamEvents
        PROVE  sent'[e] = IF e \in group /\ Token(v, e) THEN outcome(e) ELSE sent[e]
    BY <1>1
  <1>5. calling[v].ok => group \subseteq reached
    BY DEF StreamInv, AnswerTrue
  <1> HIDE DEF outcome
  <1>6. StreamTypes' /\ Leased'
    <2>1. sent' \in [StreamEvents -> [
             status : {"absent", "pending", "processing", "settled", "dead_letter"},
             tries : 0..DeliveryTries, waits : BOOLEAN, holder : Deliverers \cup {NoStream},
             live : BOOLEAN]]
      BY <1>1, <1>3, <1>4 DEF StreamInv, StreamTypes
    <2>2. batch' \in [Deliverers -> SUBSET StreamEvents]
      BY <1>1 DEF StreamInv, StreamTypes
    <2>3. Quiet \in [stream : Streams \cup {NoStream}, ok : BOOLEAN]
      BY DEF Quiet
    <2>4. Leased'
      BY <1>3, <1>4 DEF StreamInv, Leased
    <2> QED
      BY <1>1, <2>1, <2>2, <2>3, <2>4 DEF StreamInv, StreamTypes
  <1>7. \A e \in StreamEvents, w \in Deliverers :
          Token(w, e)' <=> Token(w, e) /\ ~(w = v /\ e \in group)
    BY <1>3, <1>4 DEF Token
  <1>8. \A e \in StreamEvents : sent[e].status = "settled" => sent'[e].status = "settled"
    BY <1>4 DEF Token
  <1>9. \A e \in StreamEvents : sent'[e].status = "settled" =>
          sent[e].status = "settled" \/ (e \in group /\ Token(v, e) /\ calling[v].ok)
    BY <1>3, <1>4
  <1>10. \A e \in StreamEvents, w \in Deliverers : Token(w, e)' => sent'[e] = sent[e]
    BY <1>3, <1>4 DEF Token
  <1>11. \A e \in group : \A o \in Earlier(e) : o \in batch[v] => o \in group
    BY <1>2, EarlierEvents DEF group, GroupOf
  <1>12. \A e \in batch[v] \ group : \A o \in Earlier(e) : o \notin group
    <2>1. batch[v] \subseteq StreamEvents
      BY DEF StreamInv, StreamTypes
    <2> QED
      BY <2>1, EarlierEvents DEF group, GroupOf
  <1>13. ASSUME NEW w \in Deliverers PROVE BatchWhole(w)'
    <2>1. /\ batch'[w] = IF w = v THEN batch[w] \ group ELSE batch[w]
          /\ batch[w] \subseteq StreamEvents /\ BatchWhole(w)
      BY <1>1 DEF StreamInv, StreamTypes
    <2> SUFFICES ASSUME NEW e \in batch'[w], NEW o \in Earlier(e)
                 PROVE  /\ o \in batch'[w] \/ o \in reached
                        /\ Token(w, e)' => \/ sent'[o].status = "settled"
                                           \/ /\ o \in batch'[w] /\ Token(w, o)'
                                              /\ sent'[o].live = sent'[e].live
      BY <1>1 DEF BatchWhole
    <2>2. e \in batch[w] /\ e \in StreamEvents /\ o \in StreamEvents
      BY <2>1, EarlierEvents
    <2>3. w = v => e \notin group /\ o \notin group
      BY <1>12, <2>1
    <2>4. o \in batch[w] => o \in batch'[w]
      BY <2>1, <2>3
    <2> QED
      BY <1>7, <1>8, <1>10, <2>1, <2>2, <2>3, <2>4 DEF BatchWhole
  <1>14. ASSUME NEW w \in Deliverers PROVE AnswerTrue(w)'
    <2>1. CASE w = v
      <3>1. calling'[w] = Quiet
        BY <1>1, <2>1 DEF StreamInv, StreamTypes
      <3> QED
        BY <3>1 DEF AnswerTrue, Quiet
    <2>2. CASE w # v
      <3>1. batch'[w] = batch[w] /\ calling'[w] = calling[w]
        BY <1>1, <2>2 DEF StreamInv, StreamTypes
      <3> QED
        BY <1>1, <3>1 DEF StreamInv, AnswerTrue, GroupOf
    <2> QED
      BY <2>1, <2>2
  <1>15. ASSUME NEW e \in StreamEvents, sent'[e].status = "settled"
         PROVE  e \in reached /\ \A o \in Earlier(e) : sent'[o].status = "settled"
    <2>1. CASE sent[e].status = "settled"
      BY <1>8, <2>1, EarlierEvents DEF StreamInv, StreamInOrder
    <2>2. CASE e \in group /\ Token(v, e) /\ calling[v].ok
      <3>1. e \in reached /\ e \in batch[v]
        BY <1>5, <2>2 DEF group, GroupOf
      <3>2. ASSUME NEW o \in Earlier(e) PROVE sent'[o].status = "settled"
        <4>1. o \in StreamEvents
          BY <3>2, EarlierEvents
        <4>2. sent[o].status = "settled" \/ (o \in batch[v] /\ Token(v, o))
          BY <2>2, <3>1, <3>2 DEF StreamInv, BatchWhole
        <4>3. CASE o \in batch[v] /\ Token(v, o)
          BY <1>3, <1>4, <1>11, <2>2, <3>2, <4>1, <4>3
        <4> QED
          BY <1>8, <4>1, <4>2, <4>3
      <3> QED
        BY <3>1, <3>2
    <2> QED
      BY <1>9, <1>15, <2>1, <2>2
  <1>16. StreamInOrder'
    BY <1>1, <1>15 DEF StreamInv, StreamInOrder
  <1> QED
    BY <1>6, <1>13, <1>14, <1>16 DEF StreamInv
LEMMA RedriveKeeps ==
    ASSUME StreamInv, NEW r \in Streams, RedriveDeadLetters(r)
    PROVE  StreamInv'
  <1> DEFINE row == [Unsent EXCEPT !.status = "pending"]
  <1>1. /\ \E n \in Positions :
              sent' = [e \in StreamEvents |-> IF e \in DeadUpTo(r, n) THEN row ELSE sent[e]]
        /\ UNCHANGED <<batch, calling, reached>>
    BY DEF RedriveDeadLetters
  <1>2. /\ row \in [
             status : {"absent", "pending", "processing", "settled", "dead_letter"},
             tries : 0..DeliveryTries, waits : BOOLEAN, holder : Deliverers \cup {NoStream},
             live : BOOLEAN]
        /\ row.status = "pending" /\ RowLeased(row)
    <2>1. Unsent = [status |-> "absent", tries |-> 0, waits |-> FALSE, holder |-> NoStream,
                    live |-> FALSE]
      BY DEF Unsent
    <2>2. /\ Unsent \in [
                status : {"absent", "pending", "processing", "settled", "dead_letter"},
                tries : 0..DeliveryTries, waits : BOOLEAN, holder : Deliverers \cup {NoStream},
                live : BOOLEAN]
          /\ Unsent.tries = 0 /\ Unsent.holder = NoStream
      BY <2>1, StreamDeliveryAssumption
    <2> QED
      BY <2>2, StreamDeliveryAssumption DEF RowLeased
  <1> HIDE DEF row
  <1>3. \A e \in StreamEvents :
          \/ sent'[e] = sent[e]
          \/ sent[e].status = "dead_letter" /\ sent'[e] = row
    BY <1>1 DEF DeadUpTo
  <1>4. StreamTypes' /\ Leased'
    BY <1>1, <1>2, <1>3 DEF StreamInv, StreamTypes, Leased
  <1>5. ASSUME NEW w \in Deliverers PROVE BatchWhole(w)' /\ AnswerTrue(w)'
    <2>1. batch[w] \subseteq StreamEvents /\ \A e \in batch[w] : Earlier(e) \subseteq StreamEvents
      BY EarlierEvents DEF StreamInv, StreamTypes
    <2>2. \A e \in StreamEvents : /\ Token(w, e)' => Token(w, e) /\ sent'[e] = sent[e]
                                  /\ Token(w, e) => sent'[e] = sent[e]
                                  /\ sent[e].status = "settled" => sent'[e] = sent[e]
      BY <1>2, <1>3 DEF Token
    <2>3. BatchWhole(w)'
      BY <1>1, <2>1, <2>2 DEF StreamInv, BatchWhole, Token
    <2> QED
      BY <1>1, <2>3 DEF StreamInv, AnswerTrue, GroupOf
  <1>6. StreamInOrder'
    BY <1>1, <1>2, <1>3, EarlierEvents DEF StreamInv, StreamInOrder
  <1> QED
    BY <1>4, <1>5, <1>6 DEF StreamInv

LEMMA DeathKeeps ==
    ASSUME StreamInv, NEW v \in Deliverers, DelivererDies(v)
    PROVE  StreamInv'
  <1>1. /\ batch' = [batch EXCEPT ![v] = {}]
        /\ calling' = [calling EXCEPT ![v] = Quiet]
        /\ UNCHANGED <<sent, reached>>
    BY DEF DelivererDies
  <1>2. StreamTypes' /\ Leased'
    BY <1>1 DEF StreamInv, StreamTypes, Leased, Quiet
  <1>3. ASSUME NEW w \in Deliverers PROVE BatchWhole(w)' /\ AnswerTrue(w)'
    <2>1. CASE w = v
      <3>1. batch'[w] = {} /\ calling'[w] = Quiet
        BY <1>1, <2>1 DEF StreamInv, StreamTypes
      <3> QED
        BY <3>1 DEF BatchWhole, AnswerTrue, Quiet
    <2>2. CASE w # v
      <3>1. batch'[w] = batch[w] /\ calling'[w] = calling[w]
        BY <1>1, <2>2 DEF StreamInv, StreamTypes
      <3> QED
        BY <1>1, <3>1 DEF StreamInv, BatchWhole, AnswerTrue, GroupOf, Token
    <2> QED
      BY <2>1, <2>2
  <1>4. StreamInOrder'
    BY <1>1 DEF StreamInv, StreamInOrder
  <1> QED
    BY <1>2, <1>3, <1>4 DEF StreamInv

\* The leases of a batch end together, others and delays one by one; none of it says more.
LEMMA TimeKeeps ==
    ASSUME StreamInv,
           \/ \E w \in Deliverers : ClaimEnds(w) \/ AbandonedEnds(w)
           \/ \E e \in StreamEvents : BackoffEnds(e)
    PROVE  StreamInv'
  <1> DEFINE LeasesOfOne ==
        \E v \in Deliverers : \E claim \in SUBSET Live(v) :
            /\ LeasesEnd(claim)
            /\ claim = Live(v) \cap batch[v] \/ claim \cap batch[v] = {}
  <1>0. LeasesOfOne \/ \E e \in StreamEvents : BackoffEnds(e)
    <2>1. ASSUME NEW w \in Deliverers, ClaimEnds(w) PROVE LeasesOfOne
      BY <2>1 DEF ClaimEnds
    <2>2. ASSUME NEW w \in Deliverers, AbandonedEnds(w) PROVE LeasesOfOne
      <3>1. PICK e \in Live(w) \ batch[w] : LeasesEnd({e})
        BY <2>2 DEF AbandonedEnds
      <3> QED
        BY <3>1
    <2> QED
      BY <2>1, <2>2
  <1> HIDE DEF LeasesOfOne
  <1>1. UNCHANGED <<batch, calling, reached>>
    BY <1>0 DEF LeasesOfOne, LeasesEnd, BackoffEnds
  <1>2. \A e \in StreamEvents :
          /\ sent'[e] \in [
               status : {"absent", "pending", "processing", "settled", "dead_letter"},
               tries : 0..DeliveryTries, waits : BOOLEAN, holder : Deliverers \cup {NoStream},
               live : BOOLEAN]
          /\ sent'[e].status = sent[e].status /\ sent'[e].holder = sent[e].holder
          /\ sent'[e].tries = sent[e].tries
    <2>1. CASE LeasesOfOne
      <3>1. PICK held : sent' = [e \in StreamEvents |->
                           IF e \in held THEN [sent[e] EXCEPT !.live = FALSE] ELSE sent[e]]
        BY <2>1 DEF LeasesOfOne, LeasesEnd
      <3> QED
        BY <3>1 DEF StreamInv, StreamTypes
    <2>2. CASE \E e \in StreamEvents : BackoffEnds(e)
      <3>1. PICK x \in StreamEvents : sent' = [sent EXCEPT ![x].waits = FALSE]
        BY <2>2 DEF BackoffEnds
      <3>2. sent' = [sent EXCEPT ![x] = [sent[x] EXCEPT !.waits = FALSE]]
        BY <3>1, Zenon
      <3> QED
        BY <3>2 DEF StreamInv, StreamTypes
    <2> QED
      BY <1>0, <2>1, <2>2
  <1>3. \A w \in Deliverers : \A e, o \in batch[w] :
          Token(w, e) /\ Token(w, o) /\ sent[o].live = sent[e].live => sent'[o].live = sent'[e].live
    <2>1. CASE LeasesOfOne
      <3>0. PICK v \in Deliverers : \E claim \in SUBSET Live(v) :
              /\ LeasesEnd(claim)
              /\ claim = Live(v) \cap batch[v] \/ claim \cap batch[v] = {}
        BY <2>1 DEF LeasesOfOne
      <3>1. PICK claim \in SUBSET Live(v) :
              /\ LeasesEnd(claim)
              /\ claim = Live(v) \cap batch[v] \/ claim \cap batch[v] = {}
        BY <3>0
      <3>2. \A e \in StreamEvents :
              sent'[e].live = IF e \in claim THEN FALSE ELSE sent[e].live
        BY <3>1 DEF LeasesEnd, StreamInv, StreamTypes
      <3>3. \A e \in claim : Token(v, e) /\ sent[e].live
        BY DEF Live
      <3> SUFFICES ASSUME NEW w \in Deliverers, NEW e \in batch[w], NEW o \in batch[w],
                          Token(w, e), Token(w, o), sent[o].live = sent[e].live
                   PROVE  sent'[o].live = sent'[e].live
        OBVIOUS
      <3>4. e \in StreamEvents /\ o \in StreamEvents
        BY DEF StreamInv, StreamTypes
      <3>5. CASE w = v
        <4>1. e \in claim <=> o \in claim
          BY <3>1, <3>3, <3>4, <3>5 DEF Live
        <4> QED
          BY <3>2, <3>3, <3>4, <4>1
      <3>6. CASE w # v
        <4>1. e \notin claim /\ o \notin claim
          BY <3>3, <3>6 DEF Token
        <4> QED
          BY <3>2, <3>4, <4>1
      <3> QED
        BY <3>5, <3>6
    <2>2. CASE \E e \in StreamEvents : BackoffEnds(e)
      <3>1. \A e \in StreamEvents : sent'[e].live = sent[e].live
        BY <2>2 DEF BackoffEnds, StreamInv, StreamTypes
      <3> QED
        BY <3>1 DEF StreamInv, StreamTypes
    <2> QED
      BY <1>0, <2>1, <2>2
  <1>4. StreamTypes' /\ Leased'
    <2>1. sent' = [e \in StreamEvents |-> sent'[e]]
      BY <1>0 DEF LeasesOfOne, LeasesEnd, BackoffEnds, StreamInv, StreamTypes
    <2> QED
      BY <1>1, <1>2, <2>1 DEF StreamInv, StreamTypes, Leased, RowLeased
  <1>5. ASSUME NEW w \in Deliverers PROVE BatchWhole(w)' /\ AnswerTrue(w)'
    <2>1. batch[w] \subseteq StreamEvents /\ \A e \in batch[w] : Earlier(e) \subseteq StreamEvents
      BY EarlierEvents DEF StreamInv, StreamTypes
    <2>2. \A e \in StreamEvents : Token(w, e)' <=> Token(w, e)
      BY <1>2 DEF Token
    <2>3. BatchWhole(w)'
      BY <1>1, <1>2, <1>3, <2>1, <2>2 DEF StreamInv, BatchWhole
    <2> QED
      BY <1>1, <2>3 DEF StreamInv, AnswerTrue, GroupOf
  <1>6. StreamInOrder'
    BY <1>1, <1>2, EarlierEvents DEF StreamInv, StreamInOrder
  <1> QED
    BY <1>4, <1>5, <1>6 DEF StreamInv

TroublesOK == troubles \in 0..MaxTroubles /\ redriven \in 0..MaxRedriven

LEMMA StreamKeeps ==
    ASSUME StreamInv, TroublesOK, [StreamNext]_streamVars
    PROVE  StreamInv' /\ TroublesOK'
  <1>1. StreamInv'
    <2>1. CASE UNCHANGED streamVars
      BY <2>1 DEF streamVars, StreamInv, StreamTypes, Leased, BatchWhole, AnswerTrue, GroupOf,
           Token, StreamInOrder
    <2> QED
      BY <2>1, AppendKeeps, ClaimsKeep, CallKeeps, SettlesKeep, RedriveKeeps, DeathKeeps, TimeKeeps
      DEF StreamNext, DrainStep
  <1>2. \/ Trouble \/ UNCHANGED troubles
    BY DEF StreamNext, DrainStep, streamVars, AppendToStream, BackoffEnds, ClaimDeliveries,
         CallAdapter, SettleGroup, DelivererDies, ClaimEnds, AbandonedEnds, LeasesEnd,
         RedriveDeadLetters
  <1>3. redriven' = redriven \/ (redriven < MaxRedriven /\ redriven' = redriven + 1)
    BY DEF StreamNext, DrainStep, streamVars, AppendToStream, BackoffEnds, ClaimDeliveries,
         CallAdapter, SettleGroup, DelivererDies, ClaimEnds, AbandonedEnds, LeasesEnd,
         RedriveDeadLetters
  <1> QED
    BY <1>1, <1>2, <1>3, StreamDeliveryAssumption DEF TroublesOK, Trouble

LEMMA StreamStarts == StreamInit => StreamInv /\ TroublesOK
  <1> SUFFICES ASSUME StreamInit PROVE StreamInv /\ TroublesOK
    OBVIOUS
  <1>1. Unsent = [status |-> "absent", tries |-> 0, waits |-> FALSE, holder |-> NoStream,
                  live |-> FALSE]
    BY DEF Unsent
  <1>2. \A e \in StreamEvents : sent[e] = Unsent
    BY DEF StreamInit
  <1>3. StreamTypes /\ Leased
    BY <1>1, StreamDeliveryAssumption DEF StreamInit, StreamTypes, Leased, RowLeased, Quiet
  <1>4. \A w \in Deliverers : BatchWhole(w) /\ AnswerTrue(w)
    BY DEF StreamInit, BatchWhole, AnswerTrue, Quiet
  <1>5. StreamInOrder
    BY <1>1, <1>2 DEF StreamInit, StreamInOrder
  <1> QED
    BY <1>3, <1>4, <1>5, StreamDeliveryAssumption DEF StreamInv, StreamInit, TroublesOK

LEMMA StreamTyped == StreamInv /\ TroublesOK => StreamTypeOK
  BY DEF StreamInv, StreamTypes, Leased, RowLeased, TroublesOK, StreamTypeOK
-----------------------------------------------------------------------------
(* EventSubscription: the requests by their last claim *)

LEMMA Removed ==
    ASSUME NEW s \in Seq(Requests), IsInjective(s), NEW i \in 0..Len(s)
    PROVE  /\ RemoveAt(s, i) \in Seq(Requests)
           /\ IsInjective(RemoveAt(s, i))
           /\ i # 0 => \A k \in DOMAIN RemoveAt(s, i) : RemoveAt(s, i)[k] # s[i]
           /\ i = 0 => RemoveAt(s, i) = s
  <1> DEFINE a == SubSeq(s, 1, i - 1)
             b == SubSeq(s, i + 1, Len(s))
             c == RemoveAt(s, i)
  <1>1. /\ Len(s) \in Nat /\ DOMAIN s = 1..Len(s)
        /\ \A j, k \in 1..Len(s) : s[j] = s[k] => j = k
    BY DEF IsInjective
  <1>2. CASE i = 0
    <2>1. a = <<>> /\ b = s
      <3>1. i - 1 \in Int /\ 1 \in Int /\ i - 1 < 1 /\ i + 1 = 1
        BY <1>2
      <3>2. a = <<>>
        BY <3>1, SubSeqEmpty
      <3>3. b = s
        BY <3>1, SubSeqFull
      <3> QED
        BY <3>2, <3>3
    <2>2. c = a \o b
      BY DEF RemoveAt
    <2> HIDE DEF a, b
    <2>3. c = s
      BY <2>1, <2>2, ConcatEmptySeq
    <2> QED
      BY <1>2, <2>3
  <1>3. CASE i # 0
    <2>1. a \in Seq(Requests) /\ Len(a) = i - 1 /\ \A k \in 1..(i - 1) : a[k] = s[k]
      BY <1>1, <1>3
    <2>2. /\ b \in Seq(Requests) /\ Len(b) = Len(s) - i
          /\ \A k \in 1..(Len(s) - i) : b[k] = s[k + i]
      <3>1. i + 1 \in Int /\ Len(s) \in Int
        BY <1>1
      <3>2. \A k \in (i + 1)..Len(s) : s[k] \in Requests
        BY <1>1
      <3>3. /\ b \in Seq(Requests)
            /\ Len(b) = IF i + 1 <= Len(s) THEN Len(s) - (i + 1) + 1 ELSE 0
            /\ \A k \in 1..(Len(s) - (i + 1) + 1) : b[k] = s[(i + 1) + k - 1]
        BY <3>1, <3>2, SubSeqProperties
      <3> HIDE DEF b
      <3>4. (Len(s) - (i + 1)) + 1 = Len(s) - i
        BY <1>1
      <3>5. \A k \in 1..(Len(s) - i) : (i + 1) + k - 1 = k + i
        BY <1>1
      <3>6. (IF i + 1 <= Len(s) THEN Len(s) - (i + 1) + 1 ELSE 0) = Len(s) - i
        <4>1. CASE i + 1 <= Len(s)
          BY <3>4, <4>1
        <4>2. CASE ~(i + 1 <= Len(s))
          <5>0. i \in Int /\ Len(s) \in Int /\ i <= Len(s)
            BY <1>1
          <5>1. Len(s) - i = 0
            BY <4>2, <5>0
          <5> QED
            BY <4>2, <5>1
        <4> QED
          BY <4>1, <4>2
      <3> QED
        BY <3>3, <3>4, <3>5, <3>6
    <2>3. c = a \o b
      BY DEF RemoveAt
    <2> HIDE DEF a, b, c
    <2>4. c \in Seq(Requests) /\ Len(c) = Len(s) - 1
      <3>1. c \in Seq(Requests) /\ Len(c) = Len(a) + Len(b)
        BY <2>1, <2>2, <2>3, ConcatProperties
      <3> QED
        BY <1>1, <1>3, <2>1, <2>2, <3>1
    <2>5. \A k \in 1..(Len(s) - 1) : c[k] = IF k < i THEN s[k] ELSE s[k + 1]
      <3>1. \A k \in 1..(Len(s) - 1) : c[k] = IF k <= i - 1 THEN a[k] ELSE b[k - (i - 1)]
        BY <1>1, <1>3, <2>1, <2>2, <2>3, ConcatProperties
      <3> QED
        BY <1>1, <1>3, <2>1, <2>2, <3>1
    <2>6. DOMAIN c = 1..(Len(s) - 1)
      BY <1>1, <1>3, <2>4
    <2>7. IsInjective(c)
      BY <1>1, <1>3, <2>5, <2>6 DEF IsInjective
    <2>8. \A k \in DOMAIN c : c[k] # s[i]
      BY <1>1, <1>3, <2>5, <2>6
    <2> QED
      BY <1>3, <2>4, <2>7, <2>8 DEF c
  <1> QED
    BY <1>2, <1>3

ClaimedOK == claimed \in Seq(Requests) /\ IsInjective(claimed)

LEMMA ClaimedNow ==
    ASSUME ClaimedOK, NEW r \in Requests,
           claimed' = Append(RemoveAt(claimed, Rank(r)), r)
    PROVE  ClaimedOK'
  <1> DEFINE c == RemoveAt(claimed, Rank(r))
  <1>1. Rank(r) \in 0..Len(claimed) /\ (Rank(r) # 0 => claimed[Rank(r)] = r)
        /\ (Rank(r) = 0 => \A k \in DOMAIN claimed : claimed[k] # r)
    <2>1. DOMAIN claimed = 1..Len(claimed) /\ Len(claimed) \in Nat
      BY DEF ClaimedOK
    <2>2. CASE Contains(claimed, r)
      <3>1. \E i \in DOMAIN claimed : claimed[i] = r
        BY <2>1, <2>2 DEF Contains
      <3>2. Rank(r) \in DOMAIN claimed /\ claimed[Rank(r)] = r
        BY <2>2, <3>1 DEF Rank
      <3> QED
        BY <2>1, <3>2
    <2>3. CASE ~Contains(claimed, r)
      BY <2>1, <2>3 DEF Rank, Contains
    <2> QED
      BY <2>2, <2>3
  <1>2. /\ c \in Seq(Requests) /\ IsInjective(c)
        /\ Rank(r) # 0 => \A k \in DOMAIN c : c[k] # claimed[Rank(r)]
        /\ Rank(r) = 0 => c = claimed
    BY <1>1, Removed DEF ClaimedOK
  <1>3. \A k \in DOMAIN c : c[k] # r
    BY <1>1, <1>2
  <1> HIDE DEF c
  <1>4. /\ claimed' \in Seq(Requests) /\ DOMAIN claimed' = 1..(Len(c) + 1)
        /\ Len(c) \in Nat /\ DOMAIN c = 1..Len(c)
        /\ \A k \in 1..Len(c) : claimed'[k] = c[k]
        /\ claimed'[Len(c) + 1] = r
    BY <1>2 DEF c
  <1>5. IsInjective(claimed')
    BY <1>2, <1>3, <1>4 DEF IsInjective
  <1> QED
    BY <1>4, <1>5 DEF ClaimedOK
-----------------------------------------------------------------------------
(* EventSubscription: the inductive invariant and the steps *)

Given == [status : {"absent", "pending", "processing", "acknowledged"},
          owner : Subscribers \cup {NoClaim}, live : BOOLEAN, waits : BOOLEAN]

GivenOK ==
    /\ log \in [Requests -> 0..LogLength]
    /\ given \in [Events -> Given]
    /\ holding \in [Subscribers -> Events \cup {NoClaim}]
    /\ \A e \in Events : given[e].status # "absent" => e[2] <= log[e[1]]

OthersKnown == damaged \subseteq Requests /\ degraded \subseteq damaged /\ mishaps \in 0..MaxMishaps

\* Nothing is in anybody's hands or acknowledged before all that comes before it.
OneByOne ==
    \A e \in Events : given[e].status \in {"processing", "acknowledged"} =>
          \A n \in 1..(e[2] - 1) : given[<<e[1], n>>].status = "acknowledged"

InFlightOK == IsFiniteSet(InFlight) /\ Cardinality(InFlight) <= MaxInFlight

SubInv == GivenOK /\ OthersKnown /\ ClaimedOK /\ OneByOne /\ InFlightOK

LEMMA SubInvSays == SubInv => SubscriptionTypeOK /\ SubscriptionInOrder
  BY DEF SubInv, GivenOK, Given, OthersKnown, ClaimedOK, OneByOne, InFlightOK, SubscriptionTypeOK,
     SubscriptionInOrder

LEMMA EventNumbers ==
    ASSUME NEW e \in Events
    PROVE  /\ e[1] \in Requests /\ e[2] \in 1..LogLength /\ LogLength \in Nat /\ e = <<e[1], e[2]>>
           /\ \A n \in 1..(e[2] - 1) : <<e[1], n>> \in Events /\ n < e[2]
  BY EventSubscriptionAssumption DEF Events, Numbers

\* Fewer events in flight, or one more where there was room.
LEMMA FewerInFlight ==
    ASSUME InFlightOK, NEW e, InFlight' \subseteq InFlight
                              \/ (InFlight' \subseteq InFlight \cup {e}
                                    /\ Cardinality(InFlight) < MaxInFlight)
    PROVE  InFlightOK'
  <1>1. Cardinality(InFlight) \in Nat /\ MaxInFlight \in Nat
    BY FS_CardinalityType, EventSubscriptionAssumption DEF InFlightOK
  <1>2. CASE InFlight' \subseteq InFlight
    <2>1. IsFiniteSet(InFlight') /\ Cardinality(InFlight') <= Cardinality(InFlight)
      BY <1>2, FS_Subset DEF InFlightOK
    <2>2. Cardinality(InFlight') \in Nat
      BY <2>1, FS_CardinalityType
    <2> QED
      BY <1>1, <2>1, <2>2 DEF InFlightOK
  <1>3. CASE InFlight' \subseteq InFlight \cup {e} /\ Cardinality(InFlight) < MaxInFlight
    <2>1. /\ IsFiniteSet(InFlight \cup {e})
          /\ Cardinality(InFlight \cup {e}) <= Cardinality(InFlight) + 1
      <3>1. IsFiniteSet(InFlight)
        BY DEF InFlightOK
      <3>2. /\ IsFiniteSet(InFlight \cup {e})
            /\ Cardinality(InFlight \cup {e})
                 = IF e \in InFlight THEN Cardinality(InFlight) ELSE Cardinality(InFlight) + 1
        BY <3>1, FS_AddElement
      <3> HIDE DEF InFlight
      <3> QED
        BY <1>1, <3>2
    <2>2. IsFiniteSet(InFlight') /\ Cardinality(InFlight') <= Cardinality(InFlight \cup {e})
      BY <1>3, <2>1, FS_Subset
    <2>3. Cardinality(InFlight') \in Nat /\ Cardinality(InFlight \cup {e}) \in Nat
      BY <2>1, <2>2, FS_CardinalityType
    <2> QED
      BY <1>1, <1>3, <2>1, <2>2, <2>3 DEF InFlightOK
  <1> QED
    BY <1>2, <1>3

LEMMA Rows ==
    /\ Missing \in Given /\ Missing.status = "absent"
    /\ Undelivered \in Given /\ Undelivered.status = "pending"
  <1>1. /\ Missing \in Given /\ Missing.status = "absent" /\ Missing.owner = NoClaim
        /\ Missing.live = FALSE /\ Missing.waits = FALSE
    BY DEF Missing, Given
  <1>2. Undelivered = [Missing EXCEPT !.status = "pending"]
    BY DEF Undelivered
  <1> QED
    BY <1>1, <1>2 DEF Given

\* What the check of an operation does to the deliveries: absent events of sound requests become
\* pending, expired ones too if it is a claim, and nothing else changes.
Checked(g) ==
    /\ g \in [Events -> Given]
    /\ \A e \in Events :
          /\ g[e].status # "absent" => e[2] <= log[e[1]]
          /\ g[e].status = "acknowledged" <=> given[e].status = "acknowledged"
          /\ g[e].status = "processing" => g[e] = given[e]

LEMMA ChecksDo ==
    ASSUME GivenOK
    PROVE  Checked(Materialized) /\ Checked(Recovered)
  <1>1. ASSUME NEW e \in Events
        PROVE  \/ Materialized[e] = given[e]
               \/ /\ Materialized[e] = Undelivered /\ given[e].status = "absent"
                  /\ e[2] <= log[e[1]]
    BY DEF Materialized
  <1>2. Checked(Materialized)
    <2>1. Materialized \in [Events -> Given]
      BY <1>1, Rows DEF Materialized, GivenOK
    <2> QED
      BY <1>1, <2>1, Rows DEF Checked, GivenOK
  <1>3. ASSUME NEW e \in Events
        PROVE  \/ Recovered[e] = Materialized[e]
               \/ Recovered[e] = Undelivered /\ Materialized[e].status = "processing"
    BY DEF Recovered
  <1>4. Recovered \in [Events -> Given]
    BY <1>2, <1>3, Rows DEF Recovered, Checked
  <1> QED
    BY <1>2, <1>3, <1>4, Rows DEF Checked

LEMMA CheckKeeps ==
    ASSUME SubInv, Checked(given'), UNCHANGED <<log, damaged>>,
           holding' \in [Subscribers -> Events \cup {NoClaim}]
    PROVE  GivenOK' /\ OneByOne' /\ InFlightOK'
  <1>1. GivenOK'
    BY DEF SubInv, GivenOK, Checked
  <1>2. OneByOne'
    BY EventNumbers DEF SubInv, OneByOne, Checked
  <1>3. InFlight' \subseteq InFlight
    BY DEF InFlight, Checked
  <1> QED
    BY <1>1, <1>2, <1>3, FewerInFlight DEF SubInv
LEMMA AsGiven == GivenOK => Checked(given)
  BY DEF GivenOK, Checked

\* One delivery changes after the check.
LEMMA OneChanges ==
    ASSUME SubInv, NEW g, Checked(g), NEW e \in Events, NEW d \in Given,
           given' = [g EXCEPT ![e] = d], UNCHANGED <<log, damaged>>,
           holding' \in [Subscribers -> Events \cup {NoClaim}],
           e[2] <= log[e[1]],
           given[e].status = "acknowledged" => d.status = "acknowledged",
           d.status \in {"processing", "acknowledged"} =>
               \A n \in 1..(e[2] - 1) : g[<<e[1], n>>].status = "acknowledged",
           \/ d.status # "processing"
           \/ given[e].status = "processing" /\ (d.live => given[e].live)
           \/ Cardinality(InFlight) < MaxInFlight
    PROVE  GivenOK' /\ OneByOne' /\ InFlightOK'
  <1>1. /\ g \in [Events -> Given] /\ given' \in [Events -> Given]
        /\ given'[e] = d /\ \A f \in Events : f # e => given'[f] = g[f]
    BY DEF Checked
  <1>2. GivenOK'
    BY <1>1 DEF SubInv, GivenOK, Checked
  <1>3. \A f \in Events : given[f].status = "acknowledged" => given'[f].status = "acknowledged"
    BY <1>1 DEF Checked
  <1>4. OneByOne'
    <2> SUFFICES ASSUME NEW f \in Events, given'[f].status \in {"processing", "acknowledged"},
                        NEW n \in 1..(f[2] - 1)
                 PROVE  given'[<<f[1], n>>].status = "acknowledged"
      BY DEF OneByOne
    <2>1. <<f[1], n>> \in Events
      BY EventNumbers
    <2>2. CASE f = e
      BY <1>1, <1>3, <2>1, <2>2 DEF Checked
    <2>3. CASE f # e
      BY <1>1, <1>3, <2>1, <2>3 DEF Checked, SubInv, OneByOne
    <2> QED
      BY <2>2, <2>3
  <1>5. \/ InFlight' \subseteq InFlight
        \/ InFlight' \subseteq InFlight \cup {e} /\ Cardinality(InFlight) < MaxInFlight
    <2>1. \A f \in Events : f # e /\ f \in InFlight' => f \in InFlight
      BY <1>1 DEF InFlight, Checked
    <2>2. InFlight' \subseteq Events
      BY DEF InFlight
    <2>3. CASE d.status # "processing"
      BY <1>1, <2>1, <2>2, <2>3 DEF InFlight
    <2>4. CASE given[e].status = "processing" /\ (d.live => given[e].live)
      BY <1>1, <2>1, <2>2, <2>4 DEF InFlight
    <2>5. CASE Cardinality(InFlight) < MaxInFlight
      BY <2>1, <2>2, <2>5
    <2> QED
      BY <2>3, <2>4, <2>5
  <1> QED
    BY <1>2, <1>4, <1>5, FewerInFlight DEF SubInv

LEMMA LogGrows ==
    ASSUME SubInv, NEW r \in Requests, AppendEvent(r) \/ Damage(r)
    PROVE  SubInv'
  <1>1. CASE AppendEvent(r)
    <2>1. \A q \in Requests :
             log[q] \in 0..LogLength /\ log'[q] \in 0..LogLength /\ log[q] <= log'[q]
      BY <1>1, EventSubscriptionAssumption DEF AppendEvent, SubInv, GivenOK
    <2>2. GivenOK'
      BY <1>1, <2>1, EventNumbers DEF AppendEvent, SubInv, GivenOK, Given
    <2> QED
      BY <1>1, <2>2 DEF AppendEvent, SubInv, OthersKnown, ClaimedOK, OneByOne, InFlightOK, InFlight
  <1>2. CASE Damage(r)
    <2>1. InFlight' \subseteq InFlight
      BY <1>2 DEF Damage, InFlight
    <2>2. OthersKnown'
      BY <1>2, EventSubscriptionAssumption DEF Damage, Mishap, SubInv, OthersKnown
    <2>3. GivenOK' /\ ClaimedOK' /\ OneByOne'
      BY <1>2 DEF Damage, SubInv, GivenOK, ClaimedOK, OneByOne
    <2> QED
      BY <2>1, <2>2, <2>3, FewerInFlight DEF SubInv
  <1> QED
    BY <1>1, <1>2

LEMMA LookKeeps ==
    ASSUME SubInv, Look
    PROVE  SubInv'
  <1>1. Checked(given') /\ UNCHANGED <<log, damaged>>
    BY ChecksDo DEF Look, SubInv
  <1>2. holding' \in [Subscribers -> Events \cup {NoClaim}]
    BY DEF Look, SubInv, GivenOK
  <1>3. GivenOK' /\ OneByOne' /\ InFlightOK'
    BY <1>1, <1>2, CheckKeeps
  <1>4. OthersKnown' /\ ClaimedOK'
    BY DEF Look, SubInv, OthersKnown, ClaimedOK
  <1> QED
    BY <1>3, <1>4 DEF SubInv

LEMMA ClaimEventKeeps ==
    ASSUME SubInv, NEW w \in Subscribers, ClaimEvent(w)
    PROVE  SubInv'
  <1>1. Checked(Recovered) /\ UNCHANGED <<log, damaged, mishaps>>
    BY ChecksDo DEF ClaimEvent, SubInv
  <1>2. CASE given' = Recovered /\ degraded' = damaged /\ UNCHANGED <<claimed, holding>>
    <2>1. holding' \in [Subscribers -> Events \cup {NoClaim}]
      BY <1>2 DEF SubInv, GivenOK
    <2>2. GivenOK' /\ OneByOne' /\ InFlightOK'
      BY <1>1, <1>2, <2>1, CheckKeeps
    <2> QED
      BY <1>1, <1>2, <2>2 DEF SubInv, OthersKnown, ClaimedOK
  <1>3. ASSUME NEW e \in NextOf(Ready), ~(Cardinality(InFlight) >= MaxInFlight),
               given' = [Recovered EXCEPT ![e] =
                   [status |-> "processing", owner |-> w, live |-> TRUE, waits |-> FALSE]],
               degraded' = damaged,
               claimed' = Append(RemoveAt(claimed, Rank(e[1])), e[1]),
               holding' = [holding EXCEPT ![w] = e]
        PROVE  SubInv'
    <2>1. e \in Events /\ Recovered[e].status = "pending" /\ e[1] \in Requests
          /\ \A n \in 1..(e[2] - 1) : Recovered[<<e[1], n>>].status = "acknowledged"
      BY <1>3, EventNumbers DEF NextOf, Ready
    <2>2. Cardinality(InFlight) < MaxInFlight
      <3>1. Cardinality(InFlight) \in Nat
        BY FS_CardinalityType DEF SubInv, InFlightOK
      <3> QED
        BY <1>3, <3>1, EventSubscriptionAssumption
    <2>3. e[2] <= log[e[1]] /\ given[e].status # "acknowledged"
      BY <1>1, <2>1 DEF Checked
    <2>4. holding' \in [Subscribers -> Events \cup {NoClaim}]
      BY <1>3, <2>1 DEF SubInv, GivenOK
    <2> DEFINE d == [status |-> "processing", owner |-> w, live |-> TRUE, waits |-> FALSE]
    <2>5. d \in Given /\ d.status = "processing"
      BY DEF Given
    <2>6. given' = [Recovered EXCEPT ![e] = d]
      BY <1>3
    <2> HIDE DEF d
    <2>7. GivenOK' /\ OneByOne' /\ InFlightOK'
      BY <1>1, <2>1, <2>2, <2>3, <2>4, <2>5, <2>6, OneChanges
    <2>8. ClaimedOK'
      BY <1>3, <2>1, ClaimedNow DEF SubInv
    <2> QED
      BY <1>1, <1>3, <2>7, <2>8 DEF SubInv, OthersKnown
  <1> QED
    BY <1>2, <1>3 DEF ClaimEvent
LEMMA SettleKeeps ==
    ASSUME SubInv, NEW w \in Subscribers, holding[w] # NoClaim, NEW d \in Given,
           d.status \in {"pending", "acknowledged"}, SettleEvent(w, d)
    PROVE  GivenOK' /\ OneByOne' /\ InFlightOK' /\ ClaimedOK'
           /\ damaged' = damaged /\ degraded' \in {degraded, damaged}
  <1>1. holding[w] \in Events /\ UNCHANGED <<log, damaged, claimed>>
    BY DEF SubInv, GivenOK, SettleEvent
  <1>2. holding' \in [Subscribers -> Events \cup {NoClaim}]
    BY DEF SubInv, GivenOK, SettleEvent
  <1>3. ClaimedOK'
    BY <1>1 DEF SubInv, ClaimedOK
  <1>4. CASE Holds(w)
    <2> DEFINE e == holding[w]
    <2>1. given' = [Materialized EXCEPT ![e] = d] /\ degraded' = damaged
      BY <1>4 DEF SettleEvent
    <2>2. Checked(Materialized)
      BY ChecksDo DEF SubInv
    <2>3. given[e].status = "processing"
      BY <1>4 DEF Holds
    <2>4. e[2] <= log[e[1]]
      BY <1>1, <2>3 DEF SubInv, GivenOK
    <2>5. \A n \in 1..(e[2] - 1) : Materialized[<<e[1], n>>].status = "acknowledged"
      BY <1>1, <2>2, <2>3, EventNumbers DEF Checked, SubInv, OneByOne
    <2>6. GivenOK' /\ OneByOne' /\ InFlightOK'
      <3>1. e \in Events /\ UNCHANGED <<log, damaged>>
        BY <1>1
      <3>2. d.status # "processing"
        OBVIOUS
      <3> HIDE DEF e
      <3> QED
        BY <1>2, <2>1, <2>2, <2>3, <2>4, <2>5, <3>1, <3>2, OneChanges
    <2> QED
      BY <1>1, <1>3, <2>1, <2>6
  <1>5. CASE ~Holds(w)
    <2>1. UNCHANGED <<given, degraded>>
      BY <1>5 DEF SettleEvent
    <2>2. Checked(given')
      BY <1>1, <2>1, AsGiven DEF SubInv, Checked
    <2>3. GivenOK' /\ OneByOne' /\ InFlightOK'
      BY <1>1, <1>2, <2>2, CheckKeeps
    <2> QED
      BY <1>1, <1>3, <2>1, <2>3
  <1> QED
    BY <1>4, <1>5

LEMMA HandledKeeps ==
    ASSUME SubInv, NEW w \in Subscribers, Ack(w) \/ Fail(w)
    PROVE  SubInv'
  <1>1. holding[w] # NoClaim /\ holding[w] \in Events
    BY DEF Ack, Fail, SubInv, GivenOK
  <1>2. \E d \in Given : d.status \in {"pending", "acknowledged"} /\ SettleEvent(w, d)
    <2>1. CASE Ack(w)
      <3> DEFINE d == [given[holding[w]] EXCEPT !.status = "acknowledged"]
      <3>1. d \in Given /\ d.status = "acknowledged"
        BY <1>1 DEF SubInv, GivenOK, Given
      <3>2. SettleEvent(w, d)
        BY <2>1 DEF Ack
      <3> HIDE DEF d
      <3> QED
        BY <3>1, <3>2
    <2>2. CASE Fail(w)
      <3>1. PICK delayed \in BOOLEAN : SettleEvent(w, [Undelivered EXCEPT !.waits = delayed])
        BY <2>2 DEF Fail
      <3> DEFINE d == [Undelivered EXCEPT !.waits = delayed]
      <3>2. d \in Given /\ d.status = "pending"
        BY Rows DEF Given
      <3>3. SettleEvent(w, d)
        BY <3>1
      <3> HIDE DEF d
      <3> QED
        BY <3>2, <3>3
    <2> QED
      BY <2>1, <2>2
  <1>3. /\ GivenOK' /\ OneByOne' /\ InFlightOK' /\ ClaimedOK'
        /\ damaged' = damaged /\ degraded' \in {degraded, damaged}
    BY <1>1, <1>2, SettleKeeps
  <1>4. mishaps' = mishaps \/ Mishap
    BY DEF Ack, Fail
  <1>5. OthersKnown'
    BY <1>3, <1>4, EventSubscriptionAssumption DEF SubInv, OthersKnown, Mishap
  <1> QED
    BY <1>3, <1>5 DEF SubInv

LEMMA MishapsKeep ==
    ASSUME SubInv,
           \/ \E w \in Subscribers : SubscriberDies(w)
           \/ \E e \in Events : EventLeaseEnds(e) \/ RetryComes(e)
           \/ UNCHANGED subscriptionVars
    PROVE  SubInv'
  <1>1. CASE \E w \in Subscribers : SubscriberDies(w)
    <2>1. UNCHANGED <<log, damaged, degraded, given, claimed>> /\ Mishap
          /\ holding' \in [Subscribers -> Events \cup {NoClaim}]
      BY <1>1 DEF SubscriberDies, SubInv, GivenOK
    <2> QED
      BY <2>1, EventSubscriptionAssumption DEF SubInv, GivenOK, OthersKnown, ClaimedOK, OneByOne,
           InFlightOK, InFlight, Mishap
  <1>2. CASE UNCHANGED subscriptionVars
    BY <1>2 DEF subscriptionVars, SubInv, GivenOK, OthersKnown, ClaimedOK, OneByOne, InFlightOK,
         InFlight
  <1>3. ASSUME NEW e \in Events, EventLeaseEnds(e) \/ RetryComes(e)
        PROVE  SubInv'
    <2>1. UNCHANGED <<log, damaged, degraded, claimed, holding>> /\ (mishaps' = mishaps \/ Mishap)
      BY <1>3 DEF EventLeaseEnds, RetryComes
    <2>2. given[e] \in Given /\ given \in [Events -> Given]
      BY DEF SubInv, GivenOK
    <2>3. PICK d \in Given : /\ given' = [given EXCEPT ![e] = d]
                             /\ d.status = given[e].status
                             /\ d.live => given[e].live
                             /\ given[e].status # "absent" \/ d.status = "absent"
      <3>1. CASE EventLeaseEnds(e)
        <4> DEFINE d == [given[e] EXCEPT !.live = FALSE]
        <4>1. d \in Given /\ d.status = given[e].status /\ ~d.live
          BY <2>2 DEF Given
        <4>2. given' = [given EXCEPT ![e] = d]
          BY <3>1, Zenon DEF EventLeaseEnds
        <4> HIDE DEF d
        <4> QED
          BY <4>1, <4>2
      <3>2. CASE RetryComes(e)
        <4> DEFINE d == [given[e] EXCEPT !.waits = FALSE]
        <4>1. d \in Given /\ d.status = given[e].status /\ d.live = given[e].live
          BY <2>2 DEF Given
        <4>2. given' = [given EXCEPT ![e] = d]
          BY <3>2, Zenon DEF RetryComes
        <4> HIDE DEF d
        <4> QED
          BY <4>1, <4>2
      <3> QED
        BY <1>3, <3>1, <3>2
    <2>4. /\ given' \in [Events -> Given] /\ given'[e] = d
          /\ \A f \in Events : f # e => given'[f] = given[f]
      BY <2>2, <2>3
    <2>5. GivenOK'
      BY <2>1, <2>3, <2>4 DEF SubInv, GivenOK
    <2>6. OneByOne'
      <3>1. \A f \in Events : given'[f].status = given[f].status
        BY <2>3, <2>4
      <3> QED
        BY <3>1, EventNumbers DEF SubInv, OneByOne
    <2>7. InFlight' \subseteq InFlight
      BY <2>1, <2>3, <2>4 DEF InFlight
    <2>8. OthersKnown' /\ ClaimedOK'
      BY <2>1, EventSubscriptionAssumption DEF SubInv, OthersKnown, ClaimedOK, Mishap
    <2> QED
      BY <2>5, <2>6, <2>7, <2>8, FewerInFlight DEF SubInv
  <1> QED
    BY <1>1, <1>2, <1>3

LEMMA SubscriptionKeeps ==
    ASSUME SubInv, [SubscriptionNext]_subscriptionVars
    PROVE  SubInv'
  BY LogGrows, LookKeeps, ClaimEventKeeps, HandledKeeps, MishapsKeep DEF SubscriptionNext

LEMMA SubscriptionStarts == SubscriptionInit => SubInv
  <1> SUFFICES ASSUME SubscriptionInit PROVE SubInv
    OBVIOUS
  <1>1. \A e \in Events : given[e] = Missing
    BY DEF SubscriptionInit
  <1>2. GivenOK
    BY <1>1, Rows, EventSubscriptionAssumption DEF SubscriptionInit, GivenOK
  <1>3. InFlight = {}
    BY <1>1, Rows DEF InFlight
  <1>4. InFlightOK
    BY <1>3, FS_EmptySet, EventSubscriptionAssumption DEF InFlightOK
  <1>5. ClaimedOK
    BY DEF SubscriptionInit, ClaimedOK, IsInjective
  <1> QED
    BY <1>1, <1>2, <1>4, <1>5, Rows, EventSubscriptionAssumption
    DEF SubscriptionInit, SubInv, OthersKnown, OneByOne
-----------------------------------------------------------------------------
(* WorkIntake: the inductive invariant *)

Confirmed == [choice : {"absent", "none"} \cup Actions, effect : {"none", "pending", "applied"}]
Intake == [status : {"absent", "pending", "processing", "completed", "failed"},
           retries : 0..IntakeRetries, generation : 0..MaxGenerations,
           stale : BOOLEAN, waits : BOOLEAN]
Conversation ==
    [status : {"absent", "pending", "running", "delivered"},
     action : {"none", "confirm", "chat_only", "suppressed", "task-intake-failed"}]
ReceiverState ==
    [pc : {"idle", "confirm", "chat", "promote", "persist", "effect", "update"},
     message : Messages \cup {NoMessage}, choice : {"none"} \cup Actions, created : BOOLEAN]
WorkerState == [pc : {"idle", "ingest", "complete", "retry"}, message : Messages \cup {NoMessage}]

IntakeTypes ==
    /\ decision \in [Messages -> {"none", "create_task", "chat_only", "confirm"}]
    /\ confirmation \in [Messages -> Confirmed]
    /\ intake \in [Messages -> Intake]
    /\ conv \in [Convs -> Conversation]
    /\ shown \in [Convs -> Nat]
    /\ created \in [Messages -> Nat]
    /\ receiver \in [Receivers -> ReceiverState]
    /\ worker \in [IntakeWorkers -> WorkerState]
    /\ dispatched \in Convs \cup {NoConv}
    /\ spent \in [calls : 0..MaxCalls, deaths : 0..MaxDeaths]

\* What the sender has chosen is kept with its effect, and only for a held message.
ChoiceOf(m) ==
    /\ confirmation[m].effect # "none" => confirmation[m].choice \in Actions
    /\ confirmation[m].choice # "absent" => m \in Natural /\ decision[m] = "confirm"
    /\ confirmation[m].choice = "create_task" /\ confirmation[m].effect = "applied" =>
          intake[m].status # "absent"

\* Only a message for the agent may be given to it, and only one for the queue be in it.
ForAgent(m) ==
    \/ decision[m] = "chat_only"
    \/ confirmation[m].choice = "chat_only" /\ confirmation[m].effect = "applied"
ForQueue(m) == decision[m] = "create_task" \/ confirmation[m].choice = "create_task"

\* The message's own row is for the agent.
GivenFirst(m) == conv[<<m, "chat">>].status \in {"pending", "running"} \/ shown[<<m, "chat">>] > 0

ChatRow(m) ==
    LET v == conv[<<m, "chat">>]
        n == shown[<<m, "chat">>]
    IN  /\ GivenFirst(m) => ForAgent(m)
        /\ v.status # "delivered" => n = 0
        /\ n <= 1
        /\ v.status = "running" <=> dispatched = <<m, "chat">>
        /\ confirmation[m].choice = "chat_only" /\ confirmation[m].effect = "applied" =>
              v.action = "chat_only"
IntentRow(m) ==
    /\ intake[m].status # "absent" => ForQueue(m)
    /\ conv[<<m, "task">>].status \in {"absent", "delivered"}
    /\ dispatched # <<m, "task">> /\ shown[<<m, "task">>] = 0

\* A row of the queue, its conversation and its task.
QueueRow(m) ==
    /\ intake[m].status = "absent" <=> conv[<<m, "task">>].status = "absent"
    /\ dispatched = <<m, "task">> => intake[m].status # "absent"
    /\ intake[m].stale => intake[m].status = "processing"
    /\ intake[m].waits => intake[m].status = "pending"
    /\ intake[m].status # "failed" => intake[m].retries < IntakeRetries
    /\ intake[m].status = "completed" => created[m] = 1
    /\ created[m] <= 1
    /\ conv[<<m, "task">>].action = "task-intake-failed" => intake[m].status = "failed"

\* What a process has read or written of its message is still so.
ReceiverKnows(c) ==
    LET r == receiver[c]
        m == r.message
    IN  r.pc # "idle" =>
          /\ m \in Messages
          /\ r.pc = "confirm" => m \in Natural /\ decision[m] = "confirm"
          /\ r.pc = "chat" => m \in Natural /\ decision[m] = "chat_only"
          /\ r.pc \in {"persist", "effect"} /\ r.choice = "create_task" =>
                confirmation[m].choice = "create_task"
          /\ r.pc = "persist" /\ r.choice # "create_task" =>
                m \in Explicit \/ decision[m] = "create_task"
          /\ r.pc = "effect" => r.choice = "create_task"
          /\ r.pc \in {"effect", "update"} => intake[m].status # "absent"

WorkerKnows(w) ==
    worker[w].pc # "idle" =>
        /\ worker[w].message \in Messages
        /\ intake[worker[w].message].status # "absent"
        /\ worker[w].pc = "complete" => created[worker[w].message] = 1

IntakeInv ==
    /\ IntakeTypes
    /\ \A m \in Messages : ChoiceOf(m) /\ ChatRow(m) /\ QueueRow(m)
    /\ \A m \in Natural : IntentRow(m)
    /\ \A c \in Receivers : ReceiverKnows(c)
    /\ \A w \in IntakeWorkers : WorkerKnows(w)

LEMMA IntakeRows ==
    /\ Idle \in ReceiverState /\ Idle.pc = "idle" /\ Idle.choice = "none"
    /\ AtRest \in WorkerState /\ AtRest.pc = "idle"
    /\ Absent \in Conversation /\ Absent.status = "absent" /\ Absent.action = "none"
    /\ NoConfirmation \in Confirmed /\ NoConfirmation.choice = "absent"
    /\ NoConfirmation.effect = "none"
    /\ NoIntake \in Intake /\ NoIntake.status = "absent" /\ ~NoIntake.stale /\ ~NoIntake.waits
    /\ NoIntake.retries = 0
  <1>1. Idle \in ReceiverState /\ Idle.pc = "idle" /\ Idle.choice = "none"
    BY DEF Idle, ReceiverState
  <1>2. AtRest \in WorkerState /\ AtRest.pc = "idle"
    BY DEF AtRest, WorkerState
  <1>3. Absent \in Conversation /\ Absent.status = "absent" /\ Absent.action = "none"
    BY DEF Absent, Conversation
  <1>4. /\ NoConfirmation \in Confirmed /\ NoConfirmation.choice = "absent"
        /\ NoConfirmation.effect = "none"
    BY DEF NoConfirmation, Confirmed
  <1>5. /\ NoIntake \in Intake /\ NoIntake.status = "absent" /\ ~NoIntake.stale /\ ~NoIntake.waits
        /\ NoIntake.retries = 0
    BY WorkIntakeAssumption DEF NoIntake, Intake
  <1> QED
    BY <1>1, <1>2, <1>3, <1>4, <1>5

\* What no step takes back.
Kept ==
    \A m \in Messages :
        /\ decision[m] # "none" => decision'[m] = decision[m]
        /\ confirmation[m].choice \in Actions => confirmation'[m].choice = confirmation[m].choice
        /\ intake[m].status # "absent" => intake'[m].status # "absent"
        /\ created[m] = 1 => created'[m] = 1

LEMMA KnowledgeStays ==
    ASSUME IntakeInv, Kept
    PROVE  /\ \A c \in Receivers : receiver'[c] \in {receiver[c], Idle} => ReceiverKnows(c)'
           /\ \A w \in IntakeWorkers : worker'[w] \in {worker[w], AtRest} => WorkerKnows(w)'
  <1>1. ASSUME NEW c \in Receivers, receiver'[c] \in {receiver[c], Idle}
        PROVE  ReceiverKnows(c)'
    <2>1. CASE receiver'[c] = Idle
      BY <2>1, IntakeRows DEF ReceiverKnows
    <2>2. CASE receiver'[c] = receiver[c]
      BY <2>2 DEF IntakeInv, ReceiverKnows, Kept, Actions
    <2> QED
      BY <1>1, <2>1, <2>2
  <1>2. ASSUME NEW w \in IntakeWorkers, worker'[w] \in {worker[w], AtRest}
        PROVE  WorkerKnows(w)'
    <2>1. CASE worker'[w] = AtRest
      BY <2>1, IntakeRows DEF WorkerKnows
    <2>2. CASE worker'[w] = worker[w]
      BY <2>2 DEF IntakeInv, WorkerKnows, Kept
    <2> QED
      BY <1>2, <2>1, <2>2
  <1> QED
    BY <1>1, <1>2

LEMMA NaturalMessages == \A m \in Natural : m \in Messages /\ m \notin Explicit
  BY WorkIntakeAssumption DEF Messages

\* A step of one process alone, that writes nothing.
LEMMA OneReceiver ==
    ASSUME IntakeInv, NEW c \in Receivers, NEW r \in ReceiverState,
           receiver' = [receiver EXCEPT ![c] = r]
    PROVE  /\ receiver' \in [Receivers -> ReceiverState] /\ receiver'[c] = r
           /\ \A d \in Receivers : d # c => receiver'[d] = receiver[d]
  BY DEF IntakeInv, IntakeTypes

LEMMA IntakeStarts == IntakeInit => IntakeInv
  <1> SUFFICES ASSUME IntakeInit PROVE IntakeInv
    OBVIOUS
  <1>1. IntakeTypes
    <2>1. /\ decision \in [Messages -> {"none", "create_task", "chat_only", "confirm"}]
          /\ shown \in [Convs -> Nat] /\ created \in [Messages -> Nat]
          /\ dispatched \in Convs \cup {NoConv}
      BY DEF IntakeInit
    <2>2. spent \in [calls : 0..MaxCalls, deaths : 0..MaxDeaths]
      BY WorkIntakeAssumption DEF IntakeInit
    <2>3. /\ confirmation \in [Messages -> Confirmed] /\ intake \in [Messages -> Intake]
          /\ conv \in [Convs -> Conversation] /\ receiver \in [Receivers -> ReceiverState]
          /\ worker \in [IntakeWorkers -> WorkerState]
      BY IntakeRows DEF IntakeInit
    <2> QED
      BY <2>1, <2>2, <2>3 DEF IntakeTypes
  <1>2. ASSUME NEW m \in Messages
        PROVE  /\ <<m, "chat">> \in Convs /\ <<m, "task">> \in Convs
               /\ dispatched # <<m, "chat">> /\ dispatched # <<m, "task">>
    <2>1. m # NoMessage
      BY WorkIntakeAssumption DEF Messages
    <2>2. dispatched = <<NoMessage, "chat">> /\ m \in Messages
      BY DEF IntakeInit, NoConv
    <2>3. <<m, "chat">> # <<NoMessage, "chat">> /\ <<m, "task">> # <<NoMessage, "chat">>
      BY <2>1, Zenon
    <2>4. <<m, "chat">> \in Convs /\ <<m, "task">> \in Convs
      BY DEF Convs
    <2> QED
      BY <2>2, <2>3, <2>4, Zenon
  <1>3. \A m \in Messages : ChoiceOf(m) /\ ChatRow(m) /\ QueueRow(m)
    <2> SUFFICES ASSUME NEW m \in Messages PROVE ChoiceOf(m) /\ ChatRow(m) /\ QueueRow(m)
      OBVIOUS
    <2>1. /\ confirmation[m] = NoConfirmation /\ intake[m] = NoIntake /\ created[m] = 0
          /\ conv[<<m, "chat">>] = Absent /\ conv[<<m, "task">>] = Absent
          /\ shown[<<m, "chat">>] = 0
      BY <1>2 DEF IntakeInit
    <2>2. ChoiceOf(m)
      BY <2>1, IntakeRows DEF ChoiceOf
    <2>3. ChatRow(m)
      BY <1>2, <2>1, IntakeRows DEF ChatRow, GivenFirst
    <2>4. QueueRow(m)
      BY <1>2, <2>1, IntakeRows, WorkIntakeAssumption DEF QueueRow
    <2> QED
      BY <2>2, <2>3, <2>4
  <1>4. \A m \in Natural : IntentRow(m)
    BY <1>2, NaturalMessages, IntakeRows DEF IntakeInit, IntentRow
  <1>5. /\ \A c \in Receivers : ReceiverKnows(c)
        /\ \A w \in IntakeWorkers : WorkerKnows(w)
    BY IntakeRows DEF IntakeInit, ReceiverKnows, WorkerKnows
  <1> QED
    BY <1>1, <1>3, <1>4, <1>5 DEF IntakeInv
LEMMA CallsCount ==
    ASSUME IntakeInv, NEW c \in Receivers, Called(c)
    PROVE  receiver[c].pc = "idle" /\ spent' \in [calls : 0..MaxCalls, deaths : 0..MaxDeaths]
  BY WorkIntakeAssumption DEF IntakeInv, IntakeTypes, Called

LEMMA ReceiveKeeps ==
    ASSUME IntakeInv, NEW c \in Receivers,
           \/ \E m \in Natural : ReceiveNatural(c, m)
           \/ \E m \in Explicit : ReceiveExplicit(c, m)
    PROVE  IntakeInv'
  <1>1. Called(c) /\ UNCHANGED <<confirmation, intake, conv, shown, created, worker, dispatched>>
    BY DEF ReceiveNatural, ReceiveExplicit
  <1>2. PICK m \in Messages, d \in {"none", "create_task", "chat_only", "confirm"},
             r \in ReceiverState :
          /\ decision' = [decision EXCEPT ![m] = d]
          /\ decision[m] # "none" => d = decision[m]
          /\ receiver' = [receiver EXCEPT ![c] = r]
          /\ r.message = m /\ r.choice # "create_task"
          /\ \/ r.pc = "persist" /\ (m \in Explicit \/ d = "create_task")
             \/ r.pc = "chat" /\ d = "chat_only" /\ m \in Natural
             \/ r.pc = "confirm" /\ d = "confirm" /\ m \in Natural
    <2>1. ASSUME NEW m \in Natural, ReceiveNatural(c, m)
          PROVE  \E d \in {"none", "create_task", "chat_only", "confirm"}, r \in ReceiverState :
                   /\ decision' = [decision EXCEPT ![m] = d]
                   /\ decision[m] # "none" => d = decision[m]
                   /\ receiver' = [receiver EXCEPT ![c] = r]
                   /\ r.message = m /\ r.choice # "create_task"
                   /\ \/ r.pc = "persist" /\ (m \in Explicit \/ d = "create_task")
                      \/ r.pc = "chat" /\ d = "chat_only" /\ m \in Natural
                      \/ r.pc = "confirm" /\ d = "confirm" /\ m \in Natural
      <3>1. PICK e \in {"create_task", "chat_only", "confirm"} :
              /\ decision' = [decision EXCEPT ![m] = Decision(m, e)]
              /\ receiver' = [receiver EXCEPT ![c] = [Idle EXCEPT !.message = m,
                     !.pc = CASE Decision(m, e) = "create_task" -> "persist"
                              [] Decision(m, e) = "chat_only" -> "chat"
                              [] Decision(m, e) = "confirm" -> "confirm"]]
        BY <2>1 DEF ReceiveNatural
      <3> DEFINE d == Decision(m, e)
      <3>2. /\ d \in {"create_task", "chat_only", "confirm"}
            /\ decision[m] # "none" => d = decision[m]
        BY NaturalMessages DEF Decision, IntakeInv, IntakeTypes
      <3> DEFINE p == CASE d = "create_task" -> "persist" [] d = "chat_only" -> "chat"
                        [] d = "confirm" -> "confirm"
                 q == [Idle EXCEPT !.message = m]
                 r == [q EXCEPT !.pc = p]
      <3>3. receiver' = [receiver EXCEPT ![c] = r] /\ decision' = [decision EXCEPT ![m] = d]
        BY <3>1
      <3>4. \/ p = "persist" /\ d = "create_task"
            \/ p = "chat" /\ d = "chat_only"
            \/ p = "confirm" /\ d = "confirm"
        BY <3>2
      <3> HIDE DEF p, d
      <3>5. q \in ReceiverState /\ q.message = m /\ q.choice = "none"
        BY IntakeRows, NaturalMessages DEF ReceiverState
      <3> HIDE DEF q
      <3>6. r \in ReceiverState /\ r.message = m /\ r.choice = "none" /\ r.pc = p
        BY <3>4, <3>5 DEF ReceiverState
      <3> HIDE DEF r
      <3> QED
        BY <3>2, <3>3, <3>4, <3>6
    <2>2. ASSUME NEW m \in Explicit, ReceiveExplicit(c, m)
          PROVE  \E d \in {"none", "create_task", "chat_only", "confirm"}, r \in ReceiverState :
                   /\ decision' = [decision EXCEPT ![m] = d]
                   /\ d = decision[m]
                   /\ receiver' = [receiver EXCEPT ![c] = r]
                   /\ r.message = m /\ r.choice # "create_task" /\ r.pc = "persist"
      <3>1. /\ m \in Messages
            /\ decision \in [Messages -> {"none", "create_task", "chat_only", "confirm"}]
        BY DEF Messages, IntakeInv, IntakeTypes
      <3>2. decision' = [decision EXCEPT ![m] = decision[m]]
        BY <2>2, <3>1 DEF ReceiveExplicit
      <3> DEFINE q == [Idle EXCEPT !.message = m]
                 r == [q EXCEPT !.pc = "persist"]
      <3>3. receiver' = [receiver EXCEPT ![c] = r]
        BY <2>2 DEF ReceiveExplicit
      <3>4. q \in ReceiverState /\ q.message = m /\ q.choice = "none"
        BY <3>1, IntakeRows DEF ReceiverState
      <3> HIDE DEF q
      <3>5. r \in ReceiverState /\ r.message = m /\ r.choice = "none" /\ r.pc = "persist"
        BY <3>4 DEF ReceiverState
      <3> HIDE DEF r
      <3> QED
        BY <3>1, <3>2, <3>3, <3>5
    <2>3. CASE \E m \in Natural : ReceiveNatural(c, m)
      BY <2>1, <2>3, NaturalMessages
    <2>4. CASE \E m \in Explicit : ReceiveExplicit(c, m)
      <3>1. \A m \in Explicit : m \in Messages
        BY DEF Messages
      <3> QED
        BY <2>2, <2>4, <3>1
    <2> QED
      BY <2>3, <2>4
  <1>3. spent' \in [calls : 0..MaxCalls, deaths : 0..MaxDeaths]
    BY <1>1, CallsCount
  <1>4. /\ receiver' \in [Receivers -> ReceiverState] /\ receiver'[c] = r
        /\ \A d0 \in Receivers : d0 # c => receiver'[d0] = receiver[d0]
    BY <1>2, OneReceiver
  <1>5. /\ decision' \in [Messages -> {"none", "create_task", "chat_only", "confirm"}]
        /\ decision'[m] = d /\ \A n \in Messages : n # m => decision'[n] = decision[n]
    BY <1>2 DEF IntakeInv, IntakeTypes
  <1>6. IntakeTypes'
    BY <1>1, <1>3, <1>4, <1>5 DEF IntakeInv, IntakeTypes
  <1>7. \A n \in Messages : decision[n] # "none" => decision'[n] = decision[n]
    BY <1>2, <1>5
  <1>8. Kept
    BY <1>1, <1>7 DEF Kept
  <1>9. \A n \in Messages : ChoiceOf(n)' /\ ChatRow(n)' /\ QueueRow(n)'
    <2> SUFFICES ASSUME NEW n \in Messages PROVE ChoiceOf(n)' /\ ChatRow(n)' /\ QueueRow(n)'
      OBVIOUS
    <2>1. ChoiceOf(n) /\ ChatRow(n) /\ QueueRow(n)
      BY DEF IntakeInv
    <2>2. ChoiceOf(n)'
      BY <1>1, <1>7, <2>1 DEF ChoiceOf
    <2>3. ForAgent(n) => ForAgent(n)'
      BY <1>1, <1>7 DEF ForAgent
    <2>4. ChatRow(n)'
      BY <1>1, <2>1, <2>3 DEF ChatRow, GivenFirst
    <2>5. QueueRow(n)'
      BY <1>1, <2>1 DEF QueueRow
    <2> QED
      BY <2>2, <2>4, <2>5
  <1>10. \A n \in Natural : IntentRow(n)'
    BY <1>1, <1>7, NaturalMessages DEF IntakeInv, IntentRow, ForQueue
  <1>11. ReceiverKnows(c)'
    <2>1. receiver'[c].message = m /\ decision'[m] = d /\ receiver'[c].choice # "create_task"
      BY <1>2, <1>4, <1>5
    <2>2. /\ receiver'[c].pc = "persist" => m \in Explicit \/ d = "create_task"
          /\ receiver'[c].pc = "chat" => d = "chat_only" /\ m \in Natural
          /\ receiver'[c].pc = "confirm" => d = "confirm" /\ m \in Natural
          /\ receiver'[c].pc \in {"persist", "chat", "confirm"}
      BY <1>2, <1>4
    <2> QED
      BY <2>1, <2>2 DEF ReceiverKnows
  <1>12. \A e \in Receivers : ReceiverKnows(e)'
    BY <1>4, <1>8, <1>11, KnowledgeStays
  <1>13. \A w \in IntakeWorkers : WorkerKnows(w)'
    BY <1>1, <1>8, KnowledgeStays
  <1> QED
    BY <1>6, <1>9, <1>10, <1>12, <1>13 DEF IntakeInv
\* Nothing of the message changes.
SameRow(n) ==
    /\ decision'[n] = decision[n] /\ confirmation'[n] = confirmation[n]
    /\ intake'[n] = intake[n] /\ created'[n] = created[n]
    /\ \A k \in {"chat", "task"} :
          /\ conv'[<<n, k>>] = conv[<<n, k>>] /\ shown'[<<n, k>>] = shown[<<n, k>>]
          /\ dispatched' = <<n, k>> <=> dispatched = <<n, k>>

LEMMA SameRows ==
    ASSUME IntakeInv, NEW n \in Messages, SameRow(n)
    PROVE  ChoiceOf(n)' /\ ChatRow(n)' /\ QueueRow(n)' /\ (n \in Natural => IntentRow(n)')
  <1>1. ChoiceOf(n)'
    BY DEF IntakeInv, SameRow, ChoiceOf
  <1>2. ChatRow(n)'
    BY DEF IntakeInv, SameRow, ChatRow, GivenFirst, ForAgent
  <1>3. QueueRow(n)'
    BY DEF IntakeInv, SameRow, QueueRow
  <1>4. n \in Natural => IntentRow(n)'
    BY DEF IntakeInv, SameRow, IntentRow, ForQueue
  <1> QED
    BY <1>1, <1>2, <1>3, <1>4

\* A step that touches one message, or none.
LEMMA MessageStep ==
    ASSUME IntakeInv, IntakeTypes', Kept, NEW m \in Messages,
           \A n \in Messages : n # m => SameRow(n),
           ChoiceOf(m)', ChatRow(m)', QueueRow(m)', m \in Natural => IntentRow(m)',
           \A c \in Receivers : receiver'[c] \in {receiver[c], Idle} \/ ReceiverKnows(c)',
           \A w \in IntakeWorkers : worker'[w] \in {worker[w], AtRest} \/ WorkerKnows(w)'
    PROVE  IntakeInv'
  <1>1. \A n \in Messages :
           ChoiceOf(n)' /\ ChatRow(n)' /\ QueueRow(n)' /\ (n \in Natural => IntentRow(n)')
    BY SameRows
  <1> QED
    BY <1>1, NaturalMessages, KnowledgeStays DEF IntakeInv

LEMMA ConvNames ==
    ASSUME NEW m \in Messages, NEW n \in Messages
    PROVE  /\ <<m, "chat">> \in Convs /\ <<m, "task">> \in Convs
           /\ <<m, "chat">> # <<n, "task">>
           /\ m # n => <<m, "chat">> # <<n, "chat">> /\ <<m, "task">> # <<n, "task">>
           /\ NoConv # <<m, "chat">> /\ NoConv # <<m, "task">>
  <1>1. m # NoMessage
    BY WorkIntakeAssumption DEF Messages
  <1> QED
    BY <1>1 DEF Convs, NoConv

\* One that only moves a process leaves every message as it was.
LEMMA NothingWritten ==
    ASSUME UNCHANGED <<decision, confirmation, intake, conv, shown, created, dispatched>>
    PROVE  Kept /\ \A n \in Messages : SameRow(n)
  BY DEF Kept, SameRow

LEMMA StaysAsItIs ==
    ASSUME IntakeInv,
           UNCHANGED <<decision, confirmation, intake, conv, shown, created, receiver, worker,
                       dispatched, spent>>
    PROVE  IntakeInv'
  <1>1. Kept /\ \A n \in Messages : SameRow(n)
    BY NothingWritten
  <1>2. IntakeTypes' /\ worker' = worker /\ receiver' = receiver
    BY DEF IntakeInv, IntakeTypes
  <1> QED
    BY <1>1, <1>2, SameRows, NaturalMessages, KnowledgeStays DEF IntakeInv

LEMMA EndsQuietly ==
    ASSUME IntakeInv, NEW c \in Receivers, receiver' = [receiver EXCEPT ![c] = Idle],
           UNCHANGED <<decision, confirmation, intake, conv, shown, created, worker, dispatched,
                       spent>>
    PROVE  IntakeInv'
  <1>1. Kept /\ \A n \in Messages : SameRow(n)
    BY NothingWritten
  <1>2. /\ receiver' \in [Receivers -> ReceiverState]
        /\ \A d \in Receivers : receiver'[d] \in {receiver[d], Idle}
    BY IntakeRows, OneReceiver
  <1>3. IntakeTypes' /\ worker' = worker
    BY <1>2 DEF IntakeInv, IntakeTypes
  <1> QED
    BY <1>1, <1>2, <1>3, SameRows, NaturalMessages, KnowledgeStays DEF IntakeInv

\* The message's own conversation and what its sender chose.
LEMMA ChatWritten ==
    ASSUME IntakeInv, NEW c \in Receivers, NEW m \in Messages, NEW v \in Conversation,
           NEW k \in Confirmed,
           conv' = [conv EXCEPT ![<<m, "chat">>] = v],
           confirmation' = [confirmation EXCEPT ![m] = k],
           receiver' = [receiver EXCEPT ![c] = Idle],
           UNCHANGED <<decision, intake, shown, created, worker, dispatched, spent>>,
           k.effect # "none" => k.choice \in Actions,
           k.choice # "absent" => m \in Natural /\ decision[m] = "confirm",
           confirmation[m].choice \in Actions => k.choice = confirmation[m].choice,
           k.choice # "create_task" \/ k = confirmation[m],
           v.status # "running", dispatched # <<m, "chat">>, shown[<<m, "chat">>] = 0,
           v.status = "pending" => decision[m] = "chat_only"
                                       \/ (k.choice = "chat_only" /\ k.effect = "applied"),
           k.choice = "chat_only" /\ k.effect = "applied" => v.action = "chat_only"
    PROVE  IntakeInv'
  <1>1. /\ conv' \in [Convs -> Conversation] /\ conv'[<<m, "chat">>] = v
        /\ conv'[<<m, "task">>] = conv[<<m, "task">>]
        /\ \A n \in Messages : n # m => /\ conv'[<<n, "task">>] = conv[<<n, "task">>]
                                        /\ conv'[<<n, "chat">>] = conv[<<n, "chat">>]
    BY ConvNames DEF IntakeInv, IntakeTypes
  <1>2. /\ confirmation' \in [Messages -> Confirmed] /\ confirmation'[m] = k
        /\ \A n \in Messages : n # m => confirmation'[n] = confirmation[n]
    BY DEF IntakeInv, IntakeTypes
  <1>3. /\ receiver' \in [Receivers -> ReceiverState]
        /\ \A d \in Receivers : receiver'[d] \in {receiver[d], Idle}
    BY IntakeRows, OneReceiver
  <1>4. IntakeTypes'
    BY <1>1, <1>2, <1>3 DEF IntakeInv, IntakeTypes
  <1>5. Kept
    BY <1>2 DEF Kept
  <1>6. \A n \in Messages : n # m => SameRow(n)
    BY <1>1, <1>2 DEF SameRow
  <1>7. ChoiceOf(m) /\ ChatRow(m) /\ QueueRow(m) /\ (m \in Natural => IntentRow(m))
    BY DEF IntakeInv
  <1>8. ChoiceOf(m)'
    BY <1>2, <1>7 DEF ChoiceOf
  <1>9. ChatRow(m)'
    BY <1>1, <1>2 DEF ChatRow, GivenFirst, ForAgent
  <1>10. QueueRow(m)'
    BY <1>1, <1>7 DEF QueueRow
  <1>11. m \in Natural => IntentRow(m)'
    BY <1>1, <1>2, <1>7 DEF IntentRow, ForQueue, Actions
  <1> QED
    BY <1>3, <1>4, <1>5, <1>6, <1>8, <1>9, <1>10, <1>11, MessageStep
LEMMA AtWorkOn ==
    ASSUME IntakeInv, NEW c \in Receivers, receiver[c].pc # "idle"
    PROVE  LET m == receiver[c].message
           IN  /\ m \in Messages /\ ReceiverKnows(c)
               /\ conv[<<m, "chat">>] \in Conversation /\ conv[<<m, "task">>] \in Conversation
               /\ confirmation[m] \in Confirmed /\ intake[m] \in Intake
               /\ receiver[c] \in ReceiverState
               /\ conv = [conv EXCEPT ![<<m, "chat">>] = conv[<<m, "chat">>]]
               /\ confirmation = [confirmation EXCEPT ![m] = confirmation[m]]
               /\ ChoiceOf(m) /\ ChatRow(m) /\ QueueRow(m) /\ (m \in Natural => IntentRow(m))
  BY ConvNames DEF IntakeInv, IntakeTypes, ReceiverKnows

LEMMA HoldKeeps ==
    ASSUME IntakeInv, NEW c \in Receivers, Hold(c)
    PROVE  IntakeInv'
  <1> DEFINE m == receiver[c].message
  <1>1. /\ m \in Messages /\ m \in Natural /\ decision[m] = "confirm"
        /\ conv[<<m, "chat">>] \in Conversation /\ confirmation[m] \in Confirmed
        /\ conv = [conv EXCEPT ![<<m, "chat">>] = conv[<<m, "chat">>]]
        /\ confirmation = [confirmation EXCEPT ![m] = confirmation[m]]
        /\ ChoiceOf(m) /\ ChatRow(m)
    BY AtWorkOn DEF Hold, ReceiverKnows
  <1>2. /\ UNCHANGED <<decision, intake, shown, created, worker, dispatched, spent>>
        /\ receiver' = [receiver EXCEPT ![c] = Idle]
    BY DEF Hold, Ends
  <1>3. CASE confirmation[m].choice = "absent"
    <2> DEFINE v == [status |-> "delivered", action |-> "confirm"]
               k == [confirmation[m] EXCEPT !.choice = "none"]
    <2>1. v \in Conversation /\ v.status = "delivered"
      BY DEF Conversation
    <2>2. k \in Confirmed /\ k.choice = "none" /\ k.effect = "none"
      BY <1>1, <1>3 DEF Confirmed, ChoiceOf, Actions
    <2>3. conv' = [conv EXCEPT ![<<m, "chat">>] = v]
      BY <1>3 DEF Hold
    <2>4. confirmation' = [confirmation EXCEPT ![m] = k]
      BY <1>3, Zenon DEF Hold
    <2>5. ~GivenFirst(m) /\ dispatched # <<m, "chat">> /\ shown[<<m, "chat">>] = 0
      <3>1. ~ForAgent(m)
        BY <1>1, <1>3 DEF ForAgent
      <3>2. shown[<<m, "chat">>] \in Nat
        BY <1>1, ConvNames DEF IntakeInv, IntakeTypes
      <3> QED
        BY <1>1, <3>1, <3>2 DEF ChatRow, GivenFirst
    <2> HIDE DEF v, k
    <2>6. confirmation[m].choice \notin Actions
      BY <1>3 DEF Actions
    <2> HIDE DEF m
    <2> QED
      BY <1>1, <1>2, <2>1, <2>2, <2>3, <2>4, <2>5, <2>6, ChatWritten
  <1>4. CASE confirmation[m].choice # "absent"
    <2>1. UNCHANGED <<confirmation, conv>>
      BY <1>4 DEF Hold
    <2> QED
      BY <1>2, <2>1, EndsQuietly
  <1> QED
    BY <1>3, <1>4

LEMMA ChatKeeps ==
    ASSUME IntakeInv, NEW c \in Receivers, Chat(c)
    PROVE  IntakeInv'
  <1> DEFINE m == receiver[c].message
  <1>1. /\ m \in Messages /\ m \in Natural /\ decision[m] = "chat_only"
        /\ conv[<<m, "chat">>] \in Conversation /\ confirmation[m] \in Confirmed
        /\ confirmation = [confirmation EXCEPT ![m] = confirmation[m]]
        /\ ChoiceOf(m) /\ ChatRow(m)
    BY AtWorkOn DEF Chat, ReceiverKnows
  <1>2. /\ UNCHANGED <<decision, confirmation, intake, shown, created, worker, dispatched, spent>>
        /\ receiver' = [receiver EXCEPT ![c] = Idle]
    BY DEF Chat, Ends
  <1>3. CASE conv[<<m, "chat">>].status = "absent"
    <2>1. PICK s \in {"pending", "delivered"} : conv' = [conv EXCEPT ![<<m, "chat">>].status = s]
      BY Zenon, <1>3 DEF Chat
    <2> DEFINE v == [conv[<<m, "chat">>] EXCEPT !.status = s]
    <2>2. v \in Conversation /\ v.status = s
      BY <1>1 DEF Conversation
    <2>3. conv' = [conv EXCEPT ![<<m, "chat">>] = v]
      BY <2>1, Zenon
    <2>4. confirmation' = [confirmation EXCEPT ![m] = confirmation[m]]
      BY <1>1, <1>2
    <2>5. dispatched # <<m, "chat">> /\ shown[<<m, "chat">>] = 0
      BY <1>1, <1>3 DEF ChatRow
    <2> HIDE DEF v, m
    <2> QED
      BY <1>1, <1>2, <2>2, <2>3, <2>4, <2>5, ChatWritten DEF ChoiceOf
  <1>4. CASE conv[<<m, "chat">>].status # "absent"
    <2>1. UNCHANGED conv
      BY <1>4 DEF Chat
    <2> QED
      BY <1>2, <2>1, EndsQuietly
  <1> QED
    BY <1>3, <1>4

LEMMA PromoteKeeps ==
    ASSUME IntakeInv, NEW c \in Receivers, Promote(c)
    PROVE  IntakeInv'
  <1> DEFINE m == receiver[c].message
  <1>1. /\ m \in Messages
        /\ conv[<<m, "chat">>] \in Conversation /\ confirmation[m] \in Confirmed
        /\ ChoiceOf(m) /\ ChatRow(m)
    BY AtWorkOn DEF Promote
  <1>2. /\ UNCHANGED <<decision, intake, shown, created, worker, dispatched, spent>>
        /\ receiver' = [receiver EXCEPT ![c] = Idle]
    BY DEF Promote, Ends
  <1>3. CASE Promotes(m)
    <2>1. PICK s \in {"pending", "delivered"} :
            conv' = [conv EXCEPT ![<<m, "chat">>] = [status |-> s, action |-> "chat_only"]]
      BY <1>3 DEF Promote
    <2> DEFINE v == [status |-> s, action |-> "chat_only"]
               k == [confirmation[m] EXCEPT !.effect = "applied"]
    <2>2. v \in Conversation /\ v.status = s /\ v.action = "chat_only"
      BY DEF Conversation
    <2>3. conv' = [conv EXCEPT ![<<m, "chat">>] = v]
      BY <2>1
    <2>4. k \in Confirmed /\ k.choice = "chat_only" /\ k.effect = "applied"
      BY <1>1, <1>3 DEF Confirmed, Promotes
    <2>5. confirmation' = [confirmation EXCEPT ![m] = k]
      BY <1>3, Zenon DEF Promote
    <2>6. dispatched # <<m, "chat">> /\ shown[<<m, "chat">>] = 0
      <3>1. ~ForAgent(m)
        BY <1>1, <1>3 DEF ForAgent, ChoiceOf, Promotes
      <3>2. shown[<<m, "chat">>] \in Nat
        BY <1>1, ConvNames DEF IntakeInv, IntakeTypes
      <3> QED
        BY <1>1, <3>1, <3>2 DEF ChatRow, GivenFirst
    <2>7. m \in Natural /\ decision[m] = "confirm" /\ confirmation[m].choice = "chat_only"
      BY <1>1, <1>3 DEF ChoiceOf, Promotes
    <2>8. k.choice \in Actions
      BY <2>4 DEF Actions
    <2> HIDE DEF v, k, m
    <2> QED
      BY <1>1, <1>2, <2>2, <2>3, <2>4, <2>5, <2>6, <2>7, <2>8, ChatWritten
  <1>4. CASE ~Promotes(m)
    <2>1. UNCHANGED <<conv, confirmation>>
      BY <1>4 DEF Promote
    <2> QED
      BY <1>2, <2>1, EndsQuietly
  <1> QED
    BY <1>3, <1>4
\* What the sender chose, or that it is done.
LEMMA ChoiceWritten ==
    ASSUME IntakeInv, NEW m \in Messages, NEW k \in Confirmed,
           confirmation' = [confirmation EXCEPT ![m] = k],
           UNCHANGED <<decision, intake, conv, shown, created, worker, dispatched>>,
           receiver' \in [Receivers -> ReceiverState],
           spent' \in [calls : 0..MaxCalls, deaths : 0..MaxDeaths],
           m \in Natural, decision[m] = "confirm", k.choice \in Actions,
           confirmation[m].choice \in Actions => k.choice = confirmation[m].choice,
           k.effect = "applied" /\ k.choice = "create_task" => intake[m].status # "absent",
           k.effect = "applied" /\ k.choice = "chat_only" => confirmation[m].effect = "applied",
           confirmation[m].effect = "applied" => k.effect = "applied",
           Kept =>
              \A c \in Receivers : receiver'[c] \in {receiver[c], Idle} \/ ReceiverKnows(c)'
    PROVE  IntakeInv'
  <1>1. /\ confirmation' \in [Messages -> Confirmed] /\ confirmation'[m] = k
        /\ \A n \in Messages : n # m => confirmation'[n] = confirmation[n]
    BY DEF IntakeInv, IntakeTypes
  <1>2. IntakeTypes'
    BY <1>1 DEF IntakeInv, IntakeTypes
  <1>3. Kept
    BY <1>1 DEF Kept
  <1>4. \A n \in Messages : n # m => SameRow(n)
    BY <1>1 DEF SameRow
  <1>5. ChoiceOf(m) /\ ChatRow(m) /\ QueueRow(m) /\ (m \in Natural => IntentRow(m))
    BY DEF IntakeInv
  <1>6. ChoiceOf(m)'
    BY <1>1 DEF ChoiceOf
  <1>7. ChatRow(m)'
    <2>1. ASSUME k.choice = "chat_only", k.effect = "applied"
          PROVE  confirmation[m].choice = "chat_only" /\ confirmation[m].effect = "applied"
      <3>1. confirmation[m].effect = "applied"
        BY <2>1
      <3>2. confirmation[m].choice \in Actions
        BY <1>5, <3>1 DEF ChoiceOf
      <3> QED
        BY <2>1, <3>1, <3>2
    <2>2. ForAgent(m) => ForAgent(m)'
      <3>1. k.choice = confirmation[m].choice \/ confirmation[m].choice \notin Actions
        OBVIOUS
      <3>2. confirmation'[m] = k /\ decision'[m] = decision[m]
        BY <1>1
      <3> QED
        BY <3>1, <3>2 DEF ForAgent, Actions
    <2> QED
      BY <1>1, <1>5, <2>1, <2>2 DEF ChatRow, GivenFirst
  <1>8. QueueRow(m)'
    BY <1>5 DEF QueueRow
  <1>9. IntentRow(m)'
    BY <1>1, <1>5 DEF IntentRow, ForQueue, Actions
  <1> QED
    BY <1>2, <1>3, <1>4, <1>6, <1>7, <1>8, <1>9, MessageStep

LEMMA ResolveKeeps ==
    ASSUME IntakeInv, NEW c \in Receivers, NEW m \in Natural, NEW a \in Actions, Resolve(c, m, a)
    PROVE  IntakeInv'
  <1>1. /\ m \in Messages /\ confirmation[m] \in Confirmed
        /\ confirmation = [confirmation EXCEPT ![m] = confirmation[m]] /\ ChoiceOf(m)
    BY NaturalMessages DEF IntakeInv, IntakeTypes
  <1>2. UNCHANGED <<decision, intake, conv, shown, created, worker, dispatched>>
        /\ spent' \in [calls : 0..MaxCalls, deaths : 0..MaxDeaths]
    BY CallsCount DEF Resolve
  <1>3. confirmation[m].choice \in {"none", a} /\ a \in Actions
        /\ decision[m] = "confirm"
    BY <1>1 DEF Resolve, MayResolve, ChoiceOf, Actions
  <1>4. PICK k \in Confirmed : /\ confirmation' = [confirmation EXCEPT ![m] = k] /\ k.choice = a
                               /\ \/ k.effect = "pending" /\ confirmation[m].choice # a
                                  \/ k = confirmation[m]
    <2>1. CASE confirmation[m].choice # a
      <3> DEFINE k == [choice |-> a, effect |-> "pending"]
      <3>1. confirmation' = [confirmation EXCEPT ![m] = k]
        BY <2>1 DEF Resolve
      <3>2. k \in Confirmed /\ k.choice = a /\ k.effect = "pending"
        BY DEF Confirmed
      <3> HIDE DEF k
      <3> QED
        BY <2>1, <3>1, <3>2
    <2>2. CASE confirmation[m].choice = a
      BY <1>1, <2>2 DEF Resolve
    <2> QED
      BY <2>1, <2>2
  <1>5. PICK r \in ReceiverState :
          /\ receiver' = [receiver EXCEPT ![c] = r]
          /\ \/ r = Idle
             \/ /\ r.message = m /\ r.choice = a
                /\ r.pc = "promote" \/ (r.pc = "persist" /\ a = "create_task")
    <2> DEFINE applied == ~(confirmation[m].choice # a) /\ confirmation[m].effect = "applied"
               q == [Idle EXCEPT !.pc = "promote"]
               q2 == [q EXCEPT !.message = m]
               t == [Idle EXCEPT !.pc = "persist"]
               t2 == [t EXCEPT !.message = m]
    <2>1. q \in ReceiverState /\ t \in ReceiverState /\ q.pc = "promote" /\ t.pc = "persist"
      BY IntakeRows DEF ReceiverState
    <2>2. \/ receiver' = [receiver EXCEPT ![c] = Idle]
          \/ receiver' = [receiver EXCEPT ![c] = [q2 EXCEPT !.choice = a]]
          \/ receiver' = [receiver EXCEPT ![c] = [t2 EXCEPT !.choice = a]] /\ a = "create_task"
      <3>0. receiver' = [receiver EXCEPT ![c] =
               CASE a = "edit" \/ (applied /\ a # "create_task") -> Idle
                 [] a = "chat_only" /\ ~applied -> [q2 EXCEPT !.choice = a]
                 [] a = "create_task" -> [t2 EXCEPT !.choice = a]]
        BY DEF Resolve
      <3> HIDE DEF applied, q, q2, t, t2
      <3>1. CASE a = "edit" \/ (applied /\ a # "create_task")
        BY <3>0, <3>1
      <3>2. CASE a = "chat_only" /\ ~applied
        BY <3>0, <3>2
      <3>3. CASE a = "create_task"
        BY <3>0, <3>3
      <3> QED
        BY <3>1, <3>2, <3>3 DEF Actions
    <2> HIDE DEF q, t
    <2>3. q2 \in ReceiverState /\ t2 \in ReceiverState /\ q2.pc = "promote" /\ t2.pc = "persist"
          /\ q2.message = m /\ t2.message = m
      BY <1>1, <2>1 DEF ReceiverState
    <2> HIDE DEF q2, t2
    <2> DEFINE q3 == [q2 EXCEPT !.choice = a]
               t3 == [t2 EXCEPT !.choice = a]
    <2>4. q3 \in ReceiverState /\ t3 \in ReceiverState /\ q3.pc = "promote" /\ t3.pc = "persist"
          /\ q3.message = m /\ t3.message = m /\ q3.choice = a /\ t3.choice = a
      BY <1>1, <2>3 DEF ReceiverState
    <2>5. \/ receiver' = [receiver EXCEPT ![c] = Idle]
          \/ receiver' = [receiver EXCEPT ![c] = q3]
          \/ receiver' = [receiver EXCEPT ![c] = t3] /\ a = "create_task"
      BY <2>2
    <2> HIDE DEF q3, t3
    <2> QED
      BY <2>4, <2>5, IntakeRows
  <1>6. /\ receiver' \in [Receivers -> ReceiverState] /\ receiver'[c] = r
        /\ \A d \in Receivers : d # c => receiver'[d] = receiver[d]
    BY <1>5, OneReceiver
  <1>7. confirmation'[m].choice = a
    BY <1>1, <1>4 DEF IntakeInv, IntakeTypes
  <1>8. r = Idle \/ ReceiverKnows(c)'
    BY <1>1, <1>5, <1>6, <1>7 DEF ReceiverKnows
  <1>9. \A d \in Receivers : receiver'[d] \in {receiver[d], Idle} \/ ReceiverKnows(d)'
    BY <1>6, <1>8
  <1>12. confirmation[m].effect = "applied" => k.effect = "applied"
    BY <1>1, <1>3, <1>4 DEF ChoiceOf, Actions
  <1>10. /\ k.effect = "applied" /\ k.choice = "create_task" => intake[m].status # "absent"
         /\ k.effect = "applied" /\ k.choice = "chat_only" => confirmation[m].effect = "applied"
    BY <1>1, <1>4 DEF ChoiceOf
  <1>11. confirmation[m].choice \in Actions => k.choice = confirmation[m].choice
    BY <1>3, <1>4 DEF Actions
  <1> QED
    BY <1>1, <1>2, <1>3, <1>4, <1>6, <1>9, <1>10, <1>11, <1>12, ChoiceWritten
LEMMA AcknowledgeKeeps ==
    ASSUME IntakeInv, NEW m \in Messages, AcknowledgeEdit(m)
    PROVE  IntakeInv'
  <1> DEFINE k == [confirmation[m] EXCEPT !.effect = "applied"]
  <1>1. confirmation[m].choice = "edit" /\ confirmation[m].effect = "pending"
    BY DEF AcknowledgeEdit
  <1>2. k \in Confirmed /\ k.choice = "edit" /\ k.effect = "applied"
    BY <1>1 DEF IntakeInv, IntakeTypes, Confirmed
  <1>3. confirmation' = [confirmation EXCEPT ![m] = k]
    BY Zenon DEF AcknowledgeEdit
  <1>4. UNCHANGED <<decision, intake, conv, shown, created, receiver, worker, dispatched, spent>>
    BY DEF AcknowledgeEdit
  <1>5. m \in Natural /\ decision[m] = "confirm"
    BY <1>1 DEF IntakeInv, ChoiceOf
  <1>6. /\ receiver' \in [Receivers -> ReceiverState]
        /\ spent' \in [calls : 0..MaxCalls, deaths : 0..MaxDeaths]
    BY <1>4 DEF IntakeInv, IntakeTypes
  <1>7. k.choice \in Actions
    BY <1>2 DEF Actions
  <1> HIDE DEF k
  <1> QED
    BY <1>1, <1>2, <1>3, <1>4, <1>5, <1>6, <1>7, ChoiceWritten

LEMMA CompleteKeeps ==
    ASSUME IntakeInv, NEW c \in Receivers, CompleteEffect(c)
    PROVE  IntakeInv'
  <1> DEFINE m == receiver[c].message
             k == [confirmation[m] EXCEPT !.effect = "applied"]
             r == [receiver[c] EXCEPT !.pc = "update"]
  <1>1. /\ m \in Messages /\ confirmation[m] \in Confirmed /\ receiver[c] \in ReceiverState
        /\ ChoiceOf(m) /\ ReceiverKnows(c) /\ receiver[c].pc = "effect"
    BY AtWorkOn DEF CompleteEffect
  <1>2. confirmation[m].choice = "create_task" /\ intake[m].status # "absent"
        /\ receiver[c].choice = "create_task"
    BY <1>1 DEF ReceiverKnows
  <1>3. k \in Confirmed /\ k.choice = "create_task" /\ k.effect = "applied"
    BY <1>1, <1>2 DEF Confirmed
  <1>4. confirmation' = [confirmation EXCEPT ![m] = k]
    BY Zenon DEF CompleteEffect
  <1>5. UNCHANGED <<decision, intake, conv, shown, created, worker, dispatched, spent>>
    BY DEF CompleteEffect
  <1>6. receiver' = [receiver EXCEPT ![c] = r] \/ receiver' = [receiver EXCEPT ![c] = Idle]
    BY Zenon DEF CompleteEffect, Continues, Ends
  <1>7. r \in ReceiverState /\ r.pc = "update" /\ r.message = m
    BY <1>1 DEF ReceiverState
  <1>8. m \in Natural /\ decision[m] = "confirm"
    BY <1>1, <1>2 DEF ChoiceOf
  <1>9. k.choice \in Actions
    BY <1>3 DEF Actions
  <1> HIDE DEF m, k, r
  <1>10. /\ receiver' \in [Receivers -> ReceiverState]
         /\ receiver'[c] \in {Idle, r}
         /\ \A d \in Receivers : d # c => receiver'[d] = receiver[d]
    BY <1>6, <1>7, IntakeRows, OneReceiver
  <1>11. receiver'[c] = r => ReceiverKnows(c)'
    BY <1>1, <1>2, <1>5, <1>7 DEF ReceiverKnows
  <1>12. \A d \in Receivers : receiver'[d] \in {receiver[d], Idle} \/ ReceiverKnows(d)'
    BY <1>10, <1>11
  <1>13. spent' \in [calls : 0..MaxCalls, deaths : 0..MaxDeaths]
    BY <1>5 DEF IntakeInv, IntakeTypes
  <1> QED
    BY <1>1, <1>2, <1>3, <1>4, <1>5, <1>8, <1>9, <1>10, <1>12, <1>13, ChoiceWritten
\* A row of the queue with its conversation.
LEMMA QueueWritten ==
    ASSUME IntakeInv, NEW m \in Messages, NEW v \in Conversation, NEW q \in Intake,
           conv' = [conv EXCEPT ![<<m, "task">>] = v], intake' = [intake EXCEPT ![m] = q],
           UNCHANGED <<decision, confirmation, shown, created, dispatched, spent>>,
           receiver' \in [Receivers -> ReceiverState],
           worker' \in [IntakeWorkers -> WorkerState],
           v.status # "absent", q.status # "absent",
           m \in Natural => v.status = "delivered",
           m \in Natural => ForQueue(m) \/ intake[m].status # "absent",
           q.stale => q.status = "processing", q.waits => q.status = "pending",
           q.status # "failed" => q.retries < IntakeRetries,
           q.status = "completed" => intake[m].status = "completed",
           v.action = "task-intake-failed" => q.status = "failed",
           Kept => \A c \in Receivers :
                      receiver'[c] \in {receiver[c], Idle} \/ ReceiverKnows(c)',
           \A w \in IntakeWorkers : worker'[w] \in {worker[w], AtRest}
    PROVE  IntakeInv'
  <1>1. /\ conv' \in [Convs -> Conversation] /\ conv'[<<m, "task">>] = v
        /\ conv'[<<m, "chat">>] = conv[<<m, "chat">>]
        /\ \A n \in Messages : n # m => /\ conv'[<<n, "task">>] = conv[<<n, "task">>]
                                        /\ conv'[<<n, "chat">>] = conv[<<n, "chat">>]
    BY ConvNames DEF IntakeInv, IntakeTypes
  <1>2. /\ intake' \in [Messages -> Intake] /\ intake'[m] = q
        /\ \A n \in Messages : n # m => intake'[n] = intake[n]
    BY DEF IntakeInv, IntakeTypes
  <1>3. IntakeTypes'
    BY <1>1, <1>2 DEF IntakeInv, IntakeTypes
  <1>4. Kept
    BY <1>2 DEF Kept
  <1>5. \A n \in Messages : n # m => SameRow(n)
    BY <1>1, <1>2 DEF SameRow
  <1>6. ChoiceOf(m) /\ ChatRow(m) /\ QueueRow(m) /\ (m \in Natural => IntentRow(m))
    BY DEF IntakeInv
  <1>7. ChoiceOf(m)'
    BY <1>2, <1>6 DEF ChoiceOf
  <1>8. ChatRow(m)'
    BY <1>1, <1>6 DEF ChatRow, GivenFirst, ForAgent
  <1>9. QueueRow(m)'
    BY <1>1, <1>2, <1>6 DEF QueueRow
  <1>10. m \in Natural => IntentRow(m)'
    BY <1>1, <1>2, <1>6 DEF IntentRow, ForQueue
  <1> QED
    BY <1>3, <1>4, <1>5, <1>7, <1>8, <1>9, <1>10, MessageStep

LEMMA PersistKeeps ==
    ASSUME IntakeInv, NEW c \in Receivers, Persist(c)
    PROVE  IntakeInv'
  <1> DEFINE m == receiver[c].message
             i == intake[m]
             new == i.status = "absent"
             q == [i EXCEPT !.status = IF new THEN "pending" ELSE i.status]
             x == conv[<<m, "task">>]
  <1>1. /\ m \in Messages /\ i \in Intake /\ x \in Conversation /\ receiver[c] \in ReceiverState
        /\ receiver[c].pc = "persist"
        /\ ReceiverKnows(c) /\ QueueRow(m) /\ (m \in Natural => IntentRow(m))
    BY AtWorkOn DEF Persist
  <1>2. UNCHANGED <<decision, confirmation, shown, created, worker, dispatched, spent>>
    BY DEF Persist
  <1>3. intake' = [intake EXCEPT ![m] = q]
    BY Zenon DEF Persist
  <1>4. /\ q \in Intake /\ q.status = IF new THEN "pending" ELSE i.status
        /\ q.stale = i.stale /\ q.waits = i.waits /\ q.retries = i.retries
    BY <1>1 DEF Intake
  <1>5. PICK v \in Conversation : /\ conv' = [conv EXCEPT ![<<m, "task">>] = v]
                                  /\ v.action = x.action
                                  /\ IF new THEN v.status = IF m \in Natural THEN "delivered"
                                                                            ELSE "pending"
                                     ELSE v.status = x.status
    <2>1. CASE new
      <3> DEFINE s == IF m \in Natural THEN "delivered" ELSE "pending"
                 v == [x EXCEPT !.status = s]
      <3>1. conv' = [conv EXCEPT ![<<m, "task">>] = v]
        BY <2>1, Zenon DEF Persist
      <3>2. v \in Conversation /\ v.action = x.action /\ v.status = s
        BY <1>1 DEF Conversation
      <3> HIDE DEF v
      <3> QED
        BY <2>1, <3>1, <3>2
    <2>2. CASE ~new
      <3>1. conv' = conv
        BY <2>2 DEF Persist
      <3>2. conv = [conv EXCEPT ![<<m, "task">>] = x]
        BY <1>1, ConvNames DEF IntakeInv, IntakeTypes
      <3> QED
        BY <1>1, <2>2, <3>1, <3>2
    <2> QED
      BY <2>1, <2>2
  <1>6. PICK r \in ReceiverState :
          /\ receiver' = [receiver EXCEPT ![c] = r]
          /\ r.pc \in {"idle", "effect", "update"}
          /\ r.pc = "effect" => r.choice = "create_task"
          /\ r.pc # "idle" => r.message = m /\ r.choice = receiver[c].choice
    <2> DEFINE old == receiver[c]
               e == [old EXCEPT !.pc = "effect"]
               f == [e EXCEPT !.created = new]
               u == [old EXCEPT !.pc = "update"]
    <2>1. e \in ReceiverState /\ e.pc = "effect" /\ e.message = m /\ e.choice = old.choice
      BY <1>1 DEF ReceiverState
    <2>2. u \in ReceiverState /\ u.pc = "update" /\ u.message = m /\ u.choice = old.choice
      BY <1>1 DEF ReceiverState
    <2>3. receiver' = [receiver EXCEPT ![c] =
               CASE i.status = "failed" -> Idle
                 [] i.status # "failed" /\ old.choice = "create_task" -> f
                 [] new /\ old.choice # "create_task" -> u
                 [] OTHER -> Idle]
      BY Zenon DEF Persist
    <2> HIDE DEF e
    <2>4. f \in ReceiverState /\ f.pc = "effect" /\ f.message = m /\ f.choice = old.choice
      BY <2>1 DEF ReceiverState
    <2> HIDE DEF f, u, i, m, new, old
    <2>5. \/ receiver' = [receiver EXCEPT ![c] = Idle]
          \/ receiver' = [receiver EXCEPT ![c] = f] /\ old.choice = "create_task"
          \/ receiver' = [receiver EXCEPT ![c] = u]
      <3>1. CASE i.status = "failed"
        BY <2>3, <3>1 DEF new
      <3>2. CASE i.status # "failed" /\ old.choice = "create_task"
        BY <2>3, <3>2
      <3>3. CASE i.status # "failed" /\ old.choice # "create_task" /\ new
        BY <2>3, <3>3
      <3>4. CASE i.status # "failed" /\ old.choice # "create_task" /\ ~new
        BY <2>3, <3>4
      <3> QED
        BY <3>1, <3>2, <3>3, <3>4
    <2> QED
      BY <2>2, <2>4, <2>5, IntakeRows DEF old
  <1>7. /\ receiver' \in [Receivers -> ReceiverState] /\ receiver'[c] = r
        /\ \A d \in Receivers : d # c => receiver'[d] = receiver[d]
    BY <1>6, OneReceiver
  <1>8. intake'[m] = q
    BY <1>1, <1>3 DEF IntakeInv, IntakeTypes
  <1>9. ReceiverKnows(c)'
    <2>1. q.status # "absent"
      BY <1>4
    <2>2. receiver[c].choice = "create_task" => confirmation'[m].choice = "create_task"
      BY <1>1, <1>2 DEF ReceiverKnows
    <2> HIDE DEF m, q, i
    <2> QED
      BY <1>1, <1>6, <1>7, <1>8, <2>1, <2>2 DEF ReceiverKnows
  <1>10. m \in Natural => ForQueue(m) \/ i.status # "absent"
    BY <1>1, NaturalMessages DEF ReceiverKnows, ForQueue
  <1>11. /\ v.status # "absent" /\ q.status # "absent" /\ (m \in Natural => v.status = "delivered")
         /\ q.stale => q.status = "processing"
         /\ q.waits => q.status = "pending"
         /\ q.status # "failed" => q.retries < IntakeRetries
         /\ q.status = "completed" => i.status = "completed"
         /\ v.action = "task-intake-failed" => q.status = "failed"
    BY <1>1, <1>4, <1>5 DEF QueueRow, IntentRow
  <1>12. /\ worker' \in [IntakeWorkers -> WorkerState]
         /\ \A w \in IntakeWorkers : worker'[w] \in {worker[w], AtRest}
         /\ \A d \in Receivers : receiver'[d] \in {receiver[d], Idle} \/ ReceiverKnows(d)'
    BY <1>2, <1>7, <1>9 DEF IntakeInv, IntakeTypes
  <1> HIDE DEF q, m
  <1> QED
    BY <1>1, <1>2, <1>3, <1>4, <1>5, <1>7, <1>10, <1>11, <1>12, QueueWritten
LEMMA UpdateKeeps ==
    ASSUME IntakeInv, NEW c \in Receivers, UpdateConversation(c)
    PROVE  IntakeInv'
  <1> DEFINE m == receiver[c].message
             i == intake[m]
  <1>1. /\ m \in Messages /\ i \in Intake /\ i.status # "absent"
        /\ QueueRow(m) /\ (m \in Natural => IntentRow(m))
    BY AtWorkOn DEF UpdateConversation, ReceiverKnows
  <1>2. UNCHANGED <<decision, confirmation, intake, shown, created, worker, dispatched, spent>>
        /\ receiver' = [receiver EXCEPT ![c] = Idle]
    BY DEF UpdateConversation, Ends
  <1>3. PICK v \in Conversation : /\ conv' = [conv EXCEPT ![<<m, "task">>] = v]
                                  /\ v.status \in {"pending", "delivered"}
                                  /\ m \in Natural => v.status = "delivered"
                                  /\ v.action # "task-intake-failed"
    <2>1. PICK recovered \in BOOLEAN, suppressed \in {"none", "suppressed"} :
            conv' = [conv EXCEPT ![<<m, "task">>] =
                     [status |-> IF m \in Explicit /\ recovered THEN "pending" ELSE "delivered",
                      action |-> suppressed]]
      BY DEF UpdateConversation
    <2> DEFINE v == [status |-> IF m \in Explicit /\ recovered THEN "pending" ELSE "delivered",
                     action |-> suppressed]
    <2>2. /\ v \in Conversation /\ v.status \in {"pending", "delivered"}
          /\ m \in Natural => v.status = "delivered"
          /\ v.action # "task-intake-failed"
      BY NaturalMessages DEF Conversation
    <2>3. conv' = [conv EXCEPT ![<<m, "task">>] = v]
      BY <2>1
    <2> HIDE DEF v
    <2> QED
      BY <2>2, <2>3
  <1>4. intake' = [intake EXCEPT ![m] = i]
    BY <1>1, <1>2 DEF IntakeInv, IntakeTypes
  <1>5. /\ receiver' \in [Receivers -> ReceiverState]
        /\ \A d \in Receivers : receiver'[d] \in {receiver[d], Idle}
    BY <1>2, IntakeRows, OneReceiver
  <1>6. /\ worker' \in [IntakeWorkers -> WorkerState]
        /\ \A w \in IntakeWorkers : worker'[w] \in {worker[w], AtRest}
    BY <1>2 DEF IntakeInv, IntakeTypes
  <1>7. /\ v.status # "absent" /\ v.action # "task-intake-failed"
        /\ i.stale => i.status = "processing"
        /\ i.waits => i.status = "pending"
        /\ i.status # "failed" => i.retries < IntakeRetries
    BY <1>1, <1>3 DEF QueueRow
  <1> HIDE DEF i, m
  <1> QED
    BY <1>1, <1>2, <1>3, <1>4, <1>5, <1>6, <1>7, QueueWritten DEF i

LEMMA RetryFailedKeeps ==
    ASSUME IntakeInv, NEW m \in Messages, RetryFailed(m)
    PROVE  IntakeInv'
  <1> DEFINE i == intake[m]
             q1 == [i EXCEPT !.status = "pending"]
             q2 == [q1 EXCEPT !.retries = 0]
             q == [q2 EXCEPT !.generation = i.generation + 1]
             x == conv[<<m, "task">>]
             v == [x EXCEPT !.action = IF x.action = "task-intake-failed" THEN "none" ELSE x.action]
  <1>0. /\ i.status = "failed" /\ i.generation < MaxGenerations
        /\ UNCHANGED <<decision, confirmation, shown, created, receiver, worker, dispatched, spent>>
    BY DEF RetryFailed
  <1>1. /\ i \in Intake /\ x \in Conversation /\ QueueRow(m) /\ (m \in Natural => IntentRow(m))
    <2>1. <<m, "task">> \in Convs
      BY ConvNames
    <2>2. x \in Conversation
      BY <2>1 DEF IntakeInv, IntakeTypes
    <2>3. i \in Intake /\ QueueRow(m)
      BY DEF IntakeInv, IntakeTypes
    <2>4. m \in Natural => IntentRow(m)
      BY DEF IntakeInv
    <2> QED
      BY <2>2, <2>3, <2>4
  <1>2. intake' = [intake EXCEPT ![m] = q]
    BY Zenon DEF RetryFailed
  <1>3. conv' = [conv EXCEPT ![<<m, "task">>] = v]
    BY Zenon DEF RetryFailed
  <1>4. q1 \in Intake /\ q1.status = "pending" /\ q1.stale = i.stale /\ q1.waits = i.waits
        /\ q1.generation = i.generation
    BY <1>0, <1>1 DEF Intake
  <1>5. v \in Conversation /\ v.status = x.status /\ v.action # "task-intake-failed"
    BY <1>0, <1>1 DEF Conversation
  <1> HIDE DEF q1, v
  <1>6. q2 \in Intake /\ q2.status = "pending" /\ q2.stale = i.stale /\ q2.waits = i.waits
        /\ q2.retries = 0
    BY <1>4, WorkIntakeAssumption DEF Intake
  <1> HIDE DEF q2
  <1>7. q \in Intake /\ q.status = "pending" /\ q.stale = i.stale /\ q.waits = i.waits
        /\ q.retries = 0
    BY <1>0, <1>1, <1>6, WorkIntakeAssumption DEF Intake
  <1>8. /\ v.status # "absent" /\ (m \in Natural => v.status = "delivered")
        /\ ~q.stale /\ q.retries < IntakeRetries
    BY <1>0, <1>1, <1>5, <1>7, WorkIntakeAssumption DEF QueueRow, IntentRow
  <1>9. /\ receiver' \in [Receivers -> ReceiverState] /\ worker' \in [IntakeWorkers -> WorkerState]
    BY <1>0, <1>1 DEF IntakeInv, IntakeTypes
  <1> HIDE DEF q, i
  <1> QED
    BY <1>0, <1>1, <1>2, <1>3, <1>5, <1>7, <1>8, <1>9, QueueWritten DEF i

LEMMA RetryOrFailKeeps ==
    ASSUME IntakeInv, NEW w \in IntakeWorkers, RetryOrFail(w)
    PROVE  IntakeInv'
  <1> DEFINE m == worker[w].message
             i == intake[m]
             n == i.retries + 1
             fails == n >= IntakeRetries
             x == conv[<<m, "task">>]
  <1>1. /\ m \in Messages /\ i \in Intake /\ i.status # "absent" /\ x \in Conversation
        /\ QueueRow(m) /\ (m \in Natural => IntentRow(m))
        /\ worker[w].pc = "retry"
    BY ConvNames DEF RetryOrFail, IntakeInv, IntakeTypes, WorkerKnows
  <1>2. UNCHANGED <<decision, confirmation, shown, created, receiver, dispatched, spent>>
        /\ worker' = [worker EXCEPT ![w] = AtRest]
    BY DEF RetryOrFail
  <1>3. PICK q \in Intake : /\ intake' = [intake EXCEPT ![m] = q]
                            /\ \/ q = i /\ conv' = conv
                               \/ /\ q.status = IF fails THEN "failed" ELSE "pending"
                                  /\ q.retries = n /\ (q.waits => ~fails) /\ ~q.stale
                                  /\ fails \/ conv' = conv
                                  /\ i.status = "processing"
                            /\ \/ conv' = conv
                               \/ conv' = [conv EXCEPT ![<<m, "task">>].action =
                                              "task-intake-failed"]
    <2>1. CASE ~InWork(m)
      <3>1. intake' = intake /\ conv' = conv
        BY <2>1 DEF RetryOrFail
      <3>2. intake = [intake EXCEPT ![m] = i]
        BY <1>1 DEF IntakeInv, IntakeTypes
      <3> QED
        BY <1>1, <3>1, <3>2
    <2>2. CASE InWork(m)
      <3> DEFINE a == [i EXCEPT !.status = IF fails THEN "failed" ELSE "pending"]
                 b == [a EXCEPT !.retries = n]
                 d == [b EXCEPT !.waits = ~fails]
                 q == [d EXCEPT !.stale = FALSE]
      <3>1. intake' = [intake EXCEPT ![m] = q]
        BY <2>2, Zenon DEF RetryOrFail
      <3>2. /\ fails => conv' = [conv EXCEPT ![<<m, "task">>].action = "task-intake-failed"]
            /\ ~fails => conv' = conv
        BY <2>2 DEF RetryOrFail
      <3>3. i.status = "processing" /\ n \in 0..IntakeRetries /\ fails \in BOOLEAN
        BY <1>1, <2>2, WorkIntakeAssumption DEF InWork, QueueRow, Intake
      <3> HIDE DEF n, fails
      <3>4. a \in Intake /\ a.status = IF fails THEN "failed" ELSE "pending"
        BY <1>1 DEF Intake
      <3> HIDE DEF a
      <3>5. b \in Intake /\ b.status = a.status /\ b.retries = n
        BY <3>3, <3>4 DEF Intake
      <3> HIDE DEF b
      <3>6. d \in Intake /\ d.status = a.status /\ d.retries = n /\ d.waits = ~fails
        BY <3>3, <3>5 DEF Intake
      <3> HIDE DEF d
      <3>7. q \in Intake /\ q.status = a.status /\ q.retries = n /\ q.waits = ~fails /\ ~q.stale
        BY <3>6 DEF Intake
      <3> HIDE DEF q
      <3> QED
        BY <3>1, <3>2, <3>3, <3>4, <3>7
    <2> QED
      BY <2>1, <2>2
  <1>4. PICK v \in Conversation : /\ conv' = [conv EXCEPT ![<<m, "task">>] = v]
                                  /\ v.status = x.status
                                  /\ v = x \/ conv' # conv
    <2>1. conv = [conv EXCEPT ![<<m, "task">>] = x]
      BY <1>1, ConvNames DEF IntakeInv, IntakeTypes
    <2> DEFINE v == [x EXCEPT !.action = "task-intake-failed"]
    <2>2. v \in Conversation /\ v.status = x.status
      BY <1>1 DEF Conversation
    <2>3. conv' = conv \/ conv' = [conv EXCEPT ![<<m, "task">>] = v]
      BY <1>3, Zenon
    <2> HIDE DEF v
    <2> QED
      BY <1>1, <2>1, <2>2, <2>3
  <1>5. /\ worker' \in [IntakeWorkers -> WorkerState]
        /\ \A u \in IntakeWorkers : worker'[u] \in {worker[u], AtRest}
        /\ receiver' \in [Receivers -> ReceiverState]
        /\ \A c \in Receivers : receiver'[c] = receiver[c]
    BY <1>2, IntakeRows DEF IntakeInv, IntakeTypes
  <1>6. n \in Nat /\ IntakeRetries \in Nat /\ IntakeRetries > 0
    BY <1>1, WorkIntakeAssumption DEF Intake
  <1>7. /\ q.status # "absent" /\ (q.stale => q.status = "processing")
        /\ (q.waits => q.status = "pending")
        /\ (q.status # "failed" => q.retries < IntakeRetries)
        /\ (q.status = "completed" => i.status = "completed")
        /\ (v.action = "task-intake-failed" => q.status = "failed")
    <2>1. CASE q = i /\ conv' = conv
      BY <1>1, <1>4, <2>1 DEF QueueRow
    <2>2. CASE ~(q = i /\ conv' = conv)
      <3>1. /\ q.status = IF fails THEN "failed" ELSE "pending"
            /\ q.retries = n /\ (q.waits => ~fails) /\ ~q.stale
            /\ fails \/ v = x
        BY <1>3, <1>4, <2>2
      <3>2. i.status = "processing"
        BY <1>3, <2>2
      <3>3. x.action # "task-intake-failed"
        BY <1>1, <3>2 DEF QueueRow
      <3> QED
        BY <1>6, <3>1, <3>3
    <2> QED
      BY <2>1, <2>2
  <1>8. v.status # "absent" /\ (m \in Natural => v.status = "delivered")
    BY <1>1, <1>4 DEF QueueRow, IntentRow
  <1> HIDE DEF m
  <1> QED
    BY <1>1, <1>2, <1>3, <1>4, <1>5, <1>7, <1>8, QueueWritten
\* Rows of the queue alone: none is lost, fails or comes to be there, and a completed one has
\* its task.
LEMMA QueueMoves ==
    ASSUME IntakeInv, intake' \in [Messages -> Intake], worker' \in [IntakeWorkers -> WorkerState],
           spent' \in [calls : 0..MaxCalls, deaths : 0..MaxDeaths],
           UNCHANGED <<decision, confirmation, conv, shown, created, receiver, dispatched>>,
           \A n \in Messages :
               /\ intake'[n].status = "absent" <=> intake[n].status = "absent"
               /\ intake'[n].status = "failed" <=> intake[n].status = "failed"
               /\ intake'[n].status = "completed" => created[n] = 1
               /\ intake'[n].retries = intake[n].retries
               /\ intake'[n].stale => intake'[n].status = "processing"
               /\ intake'[n].waits => intake'[n].status = "pending",
           Kept => \A w \in IntakeWorkers :
                      worker'[w] \in {worker[w], AtRest} \/ WorkerKnows(w)'
    PROVE  IntakeInv'
  <1>1. IntakeTypes'
    BY DEF IntakeInv, IntakeTypes
  <1>2. Kept
    BY DEF Kept
  <1>3. ASSUME NEW n \in Messages
        PROVE  ChoiceOf(n)' /\ ChatRow(n)' /\ QueueRow(n)' /\ (n \in Natural => IntentRow(n)')
    <2>1. ChoiceOf(n) /\ ChatRow(n) /\ QueueRow(n) /\ (n \in Natural => IntentRow(n))
      BY <1>3 DEF IntakeInv
    <2>2. ChoiceOf(n)'
      BY <1>3, <2>1 DEF ChoiceOf
    <2>3. ChatRow(n)'
      BY <1>3, <2>1 DEF ChatRow, GivenFirst, ForAgent
    <2>4. QueueRow(n)'
      BY <1>3, <2>1 DEF QueueRow
    <2>5. n \in Natural => IntentRow(n)'
      BY <1>3, <2>1 DEF IntentRow, ForQueue
    <2> QED
      BY <2>2, <2>3, <2>4, <2>5
  <1> QED
    BY <1>1, <1>2, <1>3, NaturalMessages, KnowledgeStays DEF IntakeInv

LEMMA MarkCompletedKeeps ==
    ASSUME IntakeInv, NEW w \in IntakeWorkers, MarkCompleted(w)
    PROVE  IntakeInv'
  <1> DEFINE m == worker[w].message
             i == intake[m]
             q1 == [i EXCEPT !.status = "completed"]
             q == [q1 EXCEPT !.stale = FALSE]
  <1>1. /\ m \in Messages /\ i \in Intake /\ QueueRow(m) /\ created[m] = 1
    BY DEF MarkCompleted, IntakeInv, IntakeTypes, WorkerKnows
  <1>2. UNCHANGED <<decision, confirmation, conv, shown, created, receiver, dispatched, spent>>
        /\ worker' = [worker EXCEPT ![w] = AtRest]
    BY DEF MarkCompleted
  <1>3. /\ worker' \in [IntakeWorkers -> WorkerState]
        /\ \A u \in IntakeWorkers : worker'[u] \in {worker[u], AtRest}
        /\ spent' \in [calls : 0..MaxCalls, deaths : 0..MaxDeaths]
    BY <1>2, IntakeRows DEF IntakeInv, IntakeTypes
  <1>4. \/ intake' = intake
        \/ i.status = "processing" /\ intake' = [intake EXCEPT ![m] = q]
    <2>1. CASE i.status = "processing"
      <3>1. intake' = [intake EXCEPT ![m].status = "completed", ![m].stale = FALSE]
        BY <2>1 DEF MarkCompleted
      <3>2. intake \in [Messages -> Intake]
        BY DEF IntakeInv, IntakeTypes
      <3>3. [intake EXCEPT ![m].status = "completed", ![m].stale = FALSE] = [intake EXCEPT ![m] = q]
        BY <1>1, <3>2
      <3> QED
        BY <2>1, <3>1, <3>3
    <2>2. CASE i.status # "processing"
      BY <2>2 DEF MarkCompleted
    <2> QED
      BY <2>1, <2>2
  <1>5. q1 \in Intake /\ q1.status = "completed" /\ q1.retries = i.retries /\ q1.waits = i.waits
    BY <1>1 DEF Intake
  <1> HIDE DEF q1
  <1>6. q \in Intake /\ q.status = "completed" /\ q.retries = i.retries /\ q.waits = i.waits
        /\ ~q.stale
    BY <1>5 DEF Intake
  <1> HIDE DEF q
  <1>7. intake' \in [Messages -> Intake]
    BY <1>1, <1>4, <1>6 DEF IntakeInv, IntakeTypes
  <1>8. ASSUME NEW n \in Messages
        PROVE  /\ intake'[n].status = "absent" <=> intake[n].status = "absent"
               /\ intake'[n].status = "failed" <=> intake[n].status = "failed"
               /\ intake'[n].status = "completed" => created[n] = 1
               /\ intake'[n].retries = intake[n].retries
               /\ intake'[n].stale => intake'[n].status = "processing"
               /\ intake'[n].waits => intake'[n].status = "pending"
    <2>1. QueueRow(n)
      BY <1>8 DEF IntakeInv
    <2>2. intake'[n] = intake[n] \/ (n = m /\ intake'[n] = q /\ i.status = "processing")
      BY <1>1, <1>4 DEF IntakeInv, IntakeTypes
    <2>3. CASE intake'[n] = intake[n]
      BY <2>1, <2>3 DEF QueueRow
    <2>4. CASE n = m /\ intake'[n] = q /\ i.status = "processing"
      BY <1>1, <1>6, <2>4 DEF QueueRow
    <2> QED
      BY <2>2, <2>3, <2>4
  <1> QED
    BY <1>2, <1>3, <1>7, <1>8, QueueMoves

LEMMA TimeMoves ==
    ASSUME IntakeInv, NEW m \in Messages, GoesStale(m) \/ DelayEnds(m)
    PROVE  IntakeInv'
  <1> DEFINE i == intake[m]
  <1>1. UNCHANGED <<decision, confirmation, conv, shown, created, receiver, worker, dispatched,
                    spent>>
    BY DEF GoesStale, DelayEnds
  <1>2. i \in Intake /\ QueueRow(m)
    BY DEF IntakeInv, IntakeTypes
  <1>3. PICK q \in Intake : /\ intake' = [intake EXCEPT ![m] = q]
                            /\ q.status = i.status /\ q.retries = i.retries
                            /\ q.stale => i.status = "processing"
                            /\ q.waits => i.waits
    <2>1. CASE GoesStale(m)
      <3> DEFINE q == [i EXCEPT !.stale = TRUE]
      <3>1. intake' = [intake EXCEPT ![m] = q]
        BY <2>1, Zenon DEF GoesStale
      <3>2. q \in Intake /\ q.status = i.status /\ q.retries = i.retries /\ q.waits = i.waits
        BY <1>2 DEF Intake
      <3> HIDE DEF q
      <3> QED
        BY <2>1, <3>1, <3>2 DEF GoesStale
    <2>2. CASE DelayEnds(m)
      <3> DEFINE q == [i EXCEPT !.waits = FALSE]
      <3>1. intake' = [intake EXCEPT ![m] = q]
        BY <2>2, Zenon DEF DelayEnds
      <3>2. q \in Intake /\ q.status = i.status /\ q.retries = i.retries /\ q.stale = i.stale
            /\ ~q.waits
        BY <1>2 DEF Intake
      <3> HIDE DEF q
      <3> QED
        BY <1>2, <3>1, <3>2 DEF QueueRow
    <2> QED
      BY <2>1, <2>2
  <1>4. intake' \in [Messages -> Intake] /\ worker' \in [IntakeWorkers -> WorkerState]
        /\ spent' \in [calls : 0..MaxCalls, deaths : 0..MaxDeaths]
    BY <1>1, <1>3 DEF IntakeInv, IntakeTypes
  <1>5. ASSUME NEW n \in Messages
        PROVE  /\ intake'[n].status = "absent" <=> intake[n].status = "absent"
               /\ intake'[n].status = "failed" <=> intake[n].status = "failed"
               /\ intake'[n].status = "completed" => created[n] = 1
               /\ intake'[n].retries = intake[n].retries
               /\ intake'[n].stale => intake'[n].status = "processing"
               /\ intake'[n].waits => intake'[n].status = "pending"
    <2>1. QueueRow(n)
      BY <1>5 DEF IntakeInv
    <2>2. intake'[n] = IF n = m THEN q ELSE intake[n]
      BY <1>3 DEF IntakeInv, IntakeTypes
    <2> QED
      BY <1>3, <2>1, <2>2 DEF QueueRow
  <1> QED
    BY <1>1, <1>4, <1>5, QueueMoves
LEMMA OneWorker ==
    ASSUME IntakeInv, NEW w \in IntakeWorkers, NEW u \in WorkerState,
           worker' = [worker EXCEPT ![w] = u]
    PROVE  /\ worker' \in [IntakeWorkers -> WorkerState] /\ worker'[w] = u
           /\ \A o \in IntakeWorkers : o # w => worker'[o] = worker[o]
  BY DEF IntakeInv, IntakeTypes

LEMMA ClaimIntakeKeeps ==
    ASSUME IntakeInv, NEW w \in IntakeWorkers, ClaimIntake(w)
    PROVE  IntakeInv'
  <1> DEFINE recovered == [m \in Messages |-> Reclaimed(intake[m])]
  <1>1. PICK m \in Messages :
          /\ recovered[m].status = "pending" /\ ~recovered[m].waits
          /\ intake' = [recovered EXCEPT ![m].status = "processing"]
          /\ worker' = [worker EXCEPT ![w] = [pc |-> "ingest", message |-> m]]
    BY DEF ClaimIntake
  <1>2. UNCHANGED <<decision, confirmation, conv, shown, created, receiver, dispatched, spent>>
    BY DEF ClaimIntake
  <1>3. ASSUME NEW n \in Messages
        PROVE  /\ intake[n] \in Intake /\ recovered[n] \in Intake /\ QueueRow(n)
               /\ recovered[n].retries = intake[n].retries /\ recovered[n].waits = intake[n].waits
               /\ \/ recovered[n] = intake[n]
                  \/ /\ recovered[n].status = "pending" /\ intake[n].status = "processing"
                     /\ ~recovered[n].stale
    <2> DEFINE i == intake[n]
               a == [i EXCEPT !.status = "pending"]
               b == [a EXCEPT !.stale = FALSE]
    <2>1. i \in Intake /\ QueueRow(n)
      BY <1>3 DEF IntakeInv, IntakeTypes
    <2>2. a \in Intake /\ a.status = "pending" /\ a.retries = i.retries /\ a.waits = i.waits
      BY <2>1 DEF Intake
    <2>3. recovered[n] = IF i.status = "processing" /\ i.stale THEN b ELSE i
      BY <1>3 DEF Reclaimed
    <2> HIDE DEF a, recovered
    <2>4. b \in Intake /\ b.status = "pending" /\ b.retries = i.retries /\ b.waits = i.waits
          /\ ~b.stale
      BY <2>2 DEF Intake
    <2> HIDE DEF b, i
    <2>5. CASE i.status = "processing" /\ i.stale
      BY <2>1, <2>3, <2>4, <2>5 DEF i
    <2>6. CASE ~(i.status = "processing" /\ i.stale)
      BY <2>1, <2>3, <2>6 DEF i
    <2> QED
      BY <2>5, <2>6
  <1> DEFINE q == [recovered[m] EXCEPT !.status = "processing"]
  <1>4. intake' = [recovered EXCEPT ![m] = q]
    BY <1>1, Zenon
  <1>5. DOMAIN recovered = Messages /\ recovered = [n \in Messages |-> recovered[n]]
    OBVIOUS
  <1> HIDE DEF recovered
  <1>6. q \in Intake /\ q.status = "processing" /\ q.retries = recovered[m].retries
        /\ q.waits = recovered[m].waits
    BY <1>3 DEF Intake
  <1> HIDE DEF q
  <1>7. recovered \in [Messages -> Intake]
    BY <1>3, <1>5
  <1>8. intake' \in [Messages -> Intake] /\ intake'[m] = q
        /\ \A n \in Messages : n # m => intake'[n] = recovered[n]
    BY <1>4, <1>6, <1>7
  <1> DEFINE u == [pc |-> "ingest", message |-> m]
  <1>9. u \in WorkerState /\ u.pc = "ingest" /\ u.message = m
    BY DEF WorkerState
  <1>10. worker' = [worker EXCEPT ![w] = u]
    BY <1>1
  <1> HIDE DEF u
  <1>11. /\ worker' \in [IntakeWorkers -> WorkerState] /\ worker'[w] = u
         /\ \A o \in IntakeWorkers : o # w => worker'[o] = worker[o]
    BY <1>9, <1>10, OneWorker
  <1>12. WorkerKnows(w)'
    BY <1>6, <1>8, <1>9, <1>11 DEF WorkerKnows
  <1>13. ASSUME NEW n \in Messages
         PROVE  /\ intake'[n].status = "absent" <=> intake[n].status = "absent"
                /\ intake'[n].status = "failed" <=> intake[n].status = "failed"
                /\ intake'[n].status = "completed" => created[n] = 1
                /\ intake'[n].retries = intake[n].retries
                /\ intake'[n].stale => intake'[n].status = "processing"
                /\ intake'[n].waits => intake'[n].status = "pending"
    <2>1. CASE n = m
      <3>1. intake[m].status \in {"pending", "processing"}
        BY <1>1, <1>3
      <3> QED
        BY <1>1, <1>3, <1>6, <1>8, <2>1, <3>1
    <2>2. CASE n # m
      <3>1. intake'[n] = recovered[n] /\ QueueRow(n) /\ recovered[n].waits = intake[n].waits
        BY <1>3, <1>8, <1>13, <2>2
      <3>2. CASE recovered[n] = intake[n]
        BY <3>1, <3>2 DEF QueueRow
      <3>3. CASE recovered[n] # intake[n]
        <4>1. recovered[n].status = "pending" /\ intake[n].status = "processing"
              /\ ~recovered[n].stale /\ recovered[n].retries = intake[n].retries
          BY <1>3, <1>13, <3>3
        <4> QED
          BY <3>1, <4>1
      <3> QED
        BY <3>2, <3>3
    <2> QED
      BY <2>1, <2>2
  <1>14. \A o \in IntakeWorkers : worker'[o] \in {worker[o], AtRest} \/ WorkerKnows(o)'
    BY <1>11, <1>12
  <1>15. spent' \in [calls : 0..MaxCalls, deaths : 0..MaxDeaths]
    BY <1>2 DEF IntakeInv, IntakeTypes
  <1> QED
    BY <1>2, <1>8, <1>11, <1>13, <1>14, <1>15, QueueMoves

LEMMA IngestionKeeps ==
    ASSUME IntakeInv, NEW w \in IntakeWorkers, IngestIntake(w)
    PROVE  IntakeInv'
  <1>0. PICK m \in Messages : m = worker[w].message
    BY DEF IngestIntake, IntakeInv, WorkerKnows
  <1> DEFINE u == [worker[w] EXCEPT !.pc = "complete"]
  <1>1. /\ m \in Messages /\ worker[w] \in WorkerState /\ intake[m].status # "absent"
        /\ created[m] \in Nat /\ created[m] <= 1
        /\ ChoiceOf(m) /\ ChatRow(m) /\ QueueRow(m) /\ (m \in Natural => IntentRow(m))
    BY <1>0 DEF IngestIntake, IntakeInv, IntakeTypes, WorkerKnows, QueueRow
  <1>2. UNCHANGED <<decision, confirmation, intake, conv, shown, receiver, dispatched, spent>>
    BY DEF IngestIntake
  <1>3. created' = [created EXCEPT ![m] = 1]
    <2>1. Ingested(m) = 1
      BY <1>1 DEF Ingested
    <2> QED
      BY <1>0, <2>1 DEF IngestIntake
  <1>4. worker' = [worker EXCEPT ![w] = u]
    BY Zenon DEF IngestIntake
  <1>5. u \in WorkerState /\ u.pc = "complete" /\ u.message = m
    BY <1>0, <1>1 DEF WorkerState
  <1> HIDE DEF u
  <1>6. /\ worker' \in [IntakeWorkers -> WorkerState] /\ worker'[w] = u
        /\ \A o \in IntakeWorkers : o # w => worker'[o] = worker[o]
    BY <1>4, <1>5, OneWorker
  <1>7. /\ created' \in [Messages -> Nat] /\ created'[m] = 1
        /\ \A n \in Messages : n # m => created'[n] = created[n]
    BY <1>1, <1>3 DEF IntakeInv, IntakeTypes
  <1>8. IntakeTypes'
    BY <1>2, <1>6, <1>7 DEF IntakeInv, IntakeTypes
  <1>9. Kept
    BY <1>2, <1>7 DEF Kept
  <1>10. \A n \in Messages : n # m => SameRow(n)
    BY <1>2, <1>7 DEF SameRow
  <1>12. ChoiceOf(m)'
    BY <1>2, <1>1 DEF ChoiceOf
  <1>13. ChatRow(m)'
    BY <1>2, <1>1 DEF ChatRow, GivenFirst, ForAgent
  <1>14. QueueRow(m)'
    BY <1>2, <1>7, <1>1 DEF QueueRow
  <1>15. m \in Natural => IntentRow(m)'
    BY <1>2, <1>1 DEF IntentRow, ForQueue
  <1>16. WorkerKnows(w)'
    BY <1>1, <1>2, <1>5, <1>6, <1>7 DEF WorkerKnows
  <1>17. /\ \A o \in IntakeWorkers : worker'[o] \in {worker[o], AtRest} \/ WorkerKnows(o)'
         /\ \A c \in Receivers : receiver'[c] \in {receiver[c], Idle} \/ ReceiverKnows(c)'
    BY <1>2, <1>6, <1>16
  <1> QED
    BY <1>1, <1>8, <1>9, <1>10, <1>12, <1>13, <1>14, <1>15, <1>17, MessageStep

\* A worker that only moves on, or dies.
LEMMA WorkerMoves ==
    ASSUME IntakeInv, NEW w \in IntakeWorkers, IngestFails(w) \/ WorkerDies(w)
    PROVE  IntakeInv'
  <1>1. UNCHANGED <<decision, confirmation, intake, conv, shown, created, receiver, dispatched>>
    BY DEF IngestFails, WorkerDies
  <1>2. spent' \in [calls : 0..MaxCalls, deaths : 0..MaxDeaths]
    BY WorkIntakeAssumption DEF IngestFails, WorkerDies, IntakeInv, IntakeTypes
  <1>3. PICK u \in WorkerState : /\ worker' = [worker EXCEPT ![w] = u]
                                 /\ \/ u = AtRest
                                    \/ /\ u.pc = "retry" /\ u.message = worker[w].message
                                       /\ worker[w].pc # "idle"
    <2>1. CASE WorkerDies(w)
      BY <2>1, IntakeRows DEF WorkerDies
    <2>2. CASE IngestFails(w)
      <3> DEFINE u == [worker[w] EXCEPT !.pc = "retry"]
      <3>1. worker' = [worker EXCEPT ![w] = u]
        BY <2>2, Zenon DEF IngestFails
      <3>2. u \in WorkerState /\ u.pc = "retry" /\ u.message = worker[w].message
        BY DEF IntakeInv, IntakeTypes, WorkerState
      <3> HIDE DEF u
      <3> QED
        BY <2>2, <3>1, <3>2 DEF IngestFails
    <2> QED
      BY <2>1, <2>2
  <1>4. /\ worker' \in [IntakeWorkers -> WorkerState] /\ worker'[w] = u
        /\ \A o \in IntakeWorkers : o # w => worker'[o] = worker[o]
    BY <1>3, OneWorker
  <1>5. u = AtRest \/ WorkerKnows(w)'
    BY <1>1, <1>3, <1>4 DEF WorkerKnows, IntakeInv
  <1>6. \A o \in IntakeWorkers : worker'[o] \in {worker[o], AtRest} \/ WorkerKnows(o)'
    BY <1>4, <1>5
  <1>7. intake' \in [Messages -> Intake]
    BY <1>1 DEF IntakeInv, IntakeTypes
  <1>8. ASSUME NEW n \in Messages
        PROVE  /\ intake'[n].status = "absent" <=> intake[n].status = "absent"
               /\ intake'[n].status = "failed" <=> intake[n].status = "failed"
               /\ intake'[n].status = "completed" => created[n] = 1
               /\ intake'[n].retries = intake[n].retries
               /\ intake'[n].stale => intake'[n].status = "processing"
               /\ intake'[n].waits => intake'[n].status = "pending"
    BY <1>1, <1>8 DEF IntakeInv, QueueRow
  <1> QED
    BY <1>1, <1>2, <1>4, <1>6, <1>7, <1>8, QueueMoves
LEMMA DispatcherKeeps ==
    ASSUME IntakeInv,
           \/ (\E r \in Convs : DispatcherClaims(r)) \/ DispatcherDelivers
           \/ \E m \in Messages : DispatcherShowsAgain(m)
    PROVE  IntakeInv'
  <1>0. CASE \E m \in Messages : DispatcherShowsAgain(m)
    <2>1. UNCHANGED <<decision, confirmation, intake, conv, shown, created, receiver, worker,
                      dispatched, spent>>
      BY <1>0 DEF DispatcherShowsAgain
    <2> QED
      BY <2>1, StaysAsItIs
  <1> SUFFICES ASSUME (\E r \in Convs : DispatcherClaims(r)) \/ DispatcherDelivers
               PROVE  IntakeInv'
    BY <1>0
  <1>1. UNCHANGED <<decision, confirmation, intake, created, receiver, worker, spent>>
    BY DEF DispatcherClaims, DispatcherDelivers
  <1>2. PICK r \in Convs, v \in Conversation :
          /\ conv' = [conv EXCEPT ![r] = v] /\ v.action = conv[r].action
          /\ \/ /\ dispatched = NoConv /\ dispatched' = r /\ conv[r].status = "pending"
                /\ v.status = "running" /\ shown' = shown
             \/ /\ dispatched = r /\ dispatched' = NoConv /\ v.status = "delivered"
                /\ shown' = [shown EXCEPT ![r] = @ + 1]
    <2>1. CASE \E r \in Convs : DispatcherClaims(r)
      <3>1. PICK r \in Convs : DispatcherClaims(r)
        BY <2>1
      <3> DEFINE v == [conv[r] EXCEPT !.status = "running"]
      <3>2. v \in Conversation /\ v.status = "running" /\ v.action = conv[r].action
        BY DEF IntakeInv, IntakeTypes, Conversation
      <3>3. conv' = [conv EXCEPT ![r] = v]
        BY <3>1, Zenon DEF DispatcherClaims
      <3> HIDE DEF v
      <3> QED
        BY <3>1, <3>2, <3>3 DEF DispatcherClaims
    <2>2. CASE DispatcherDelivers
      <3>0. PICK r \in Convs : dispatched = r
        BY <2>2 DEF DispatcherDelivers, IntakeInv, IntakeTypes
      <3> DEFINE v == [conv[r] EXCEPT !.status = "delivered"]
      <3>1. v \in Conversation /\ v.status = "delivered" /\ v.action = conv[r].action
        BY DEF IntakeInv, IntakeTypes, Conversation
      <3>2. conv' = [conv EXCEPT ![r] = v]
        BY <2>2, <3>0, Zenon DEF DispatcherDelivers
      <3> HIDE DEF v
      <3> QED
        BY <2>2, <3>0, <3>1, <3>2 DEF DispatcherDelivers
    <2> QED
      BY <2>1, <2>2
  <1>3. PICK m \in Messages, k \in {"chat", "task"} : r = <<m, k>>
    BY DEF Convs
  <1>4. /\ conv' \in [Convs -> Conversation] /\ conv'[r] = v
        /\ \A o \in Convs : o # r => conv'[o] = conv[o]
    BY <1>2 DEF IntakeInv, IntakeTypes
  <1>5. shown \in [Convs -> Nat]
    BY DEF IntakeInv, IntakeTypes
  <1>6. /\ shown' \in [Convs -> Nat]
        /\ \A o \in Convs : o # r => shown'[o] = shown[o]
        /\ shown'[r] = shown[r] \/ (shown'[r] = shown[r] + 1 /\ dispatched = r)
        /\ v.status = "running" => shown'[r] = shown[r]
    BY <1>2, <1>5
  <1>7. dispatched' \in Convs \cup {NoConv}
    BY <1>2
  <1>8. IntakeTypes'
    BY <1>1, <1>4, <1>6, <1>7 DEF IntakeInv, IntakeTypes
  <1>9. Kept
    BY <1>1 DEF Kept
  <1>10. ASSUME NEW n \in Messages, NEW j \in {"chat", "task"}, <<n, j>> # r
         PROVE  /\ <<n, j>> \in Convs
                /\ conv'[<<n, j>>] = conv[<<n, j>>] /\ shown'[<<n, j>>] = shown[<<n, j>>]
                /\ dispatched' = <<n, j>> <=> dispatched = <<n, j>>
    <2>1. <<n, j>> \in Convs /\ <<n, j>> # NoConv
      BY ConvNames DEF Convs
    <2> QED
      BY <1>2, <1>4, <1>6, <1>10, <2>1
  <1>11. \A n \in Messages : n # m => SameRow(n)
    <2> SUFFICES ASSUME NEW n \in Messages, n # m PROVE SameRow(n)
      OBVIOUS
    <2>1. \A j \in {"chat", "task"} : <<n, j>> # r
      BY <1>3
    <2> QED
      BY <1>1, <1>10, <2>1 DEF SameRow
  <1>12. ChoiceOf(m) /\ ChatRow(m) /\ QueueRow(m) /\ (m \in Natural => IntentRow(m))
    BY DEF IntakeInv
  <1>13. ChoiceOf(m)'
    BY <1>1, <1>12 DEF ChoiceOf
  <1>14. CASE k = "chat"
    <2>1. r = <<m, "chat">> /\ <<m, "task">> # r /\ r # NoConv
      BY <1>3, <1>14, ConvNames
    <2>2. /\ conv'[<<m, "task">>] = conv[<<m, "task">>]
          /\ shown'[<<m, "task">>] = shown[<<m, "task">>]
          /\ dispatched' = <<m, "task">> <=> dispatched = <<m, "task">>
      BY <1>10, <2>1
    <2>3. ChatRow(m)'
      <3>1. GivenFirst(m) /\ (ForAgent(m) => ForAgent(m)')
        <4>1. conv[r].status \in {"pending", "running"}
          BY <1>2, <1>12, <2>1 DEF ChatRow
        <4> QED
          BY <1>1, <2>1, <4>1 DEF GivenFirst, ForAgent
      <3>2. ForAgent(m)'
        BY <1>12, <3>1 DEF ChatRow
      <3>3. shown[r] = 0
        BY <1>2, <1>12, <2>1 DEF ChatRow
      <3>4. /\ v.status # "delivered" => shown'[r] = 0
            /\ shown'[r] <= 1
        BY <1>2, <1>6, <3>3
      <3>5. v.status = "running" <=> dispatched' = r
        BY <1>2, <2>1
      <3>6. conv'[r] = v /\ v.action = conv[r].action /\ confirmation'[m] = confirmation[m]
        BY <1>1, <1>2, <1>4
      <3> QED
        BY <1>12, <2>1, <3>2, <3>4, <3>5, <3>6 DEF ChatRow
    <2>4. QueueRow(m)'
      BY <1>1, <1>12, <2>2 DEF QueueRow
    <2>5. m \in Natural => IntentRow(m)'
      BY <1>1, <1>12, <2>2 DEF IntentRow, ForQueue
    <2> QED
      BY <1>1, <1>8, <1>9, <1>11, <1>13, <2>3, <2>4, <2>5, MessageStep
  <1>15. CASE k = "task"
    <2>1. r = <<m, "task">> /\ <<m, "chat">> # r /\ r # NoConv
      BY <1>3, <1>15, ConvNames
    <2>2. /\ conv'[<<m, "chat">>] = conv[<<m, "chat">>]
          /\ shown'[<<m, "chat">>] = shown[<<m, "chat">>]
          /\ dispatched' = <<m, "chat">> <=> dispatched = <<m, "chat">>
      BY <1>10, <2>1
    <2>3. ChatRow(m)'
      BY <1>1, <1>12, <2>2 DEF ChatRow, GivenFirst, ForAgent
    <2>4. QueueRow(m)'
      <3>1. intake[m].status # "absent"
        BY <1>2, <1>12, <2>1 DEF QueueRow
      <3>2. conv'[r] = v /\ v.action = conv[r].action /\ v.status \in {"running", "delivered"}
        BY <1>2, <1>4
      <3> QED
        BY <1>1, <1>12, <2>1, <3>1, <3>2 DEF QueueRow
    <2>5. m \in Natural => IntentRow(m)'
      <3> SUFFICES ASSUME m \in Natural PROVE FALSE
        OBVIOUS
      <3>1. conv[r].status \in {"absent", "delivered"} /\ dispatched # r
        BY <1>12, <2>1 DEF IntentRow
      <3> QED
        BY <1>2, <3>1
    <2> QED
      BY <1>1, <1>8, <1>9, <1>11, <1>13, <2>3, <2>4, <2>5, MessageStep
  <1> QED
    BY <1>3, <1>14, <1>15
LEMMA IntakeKeeps ==
    ASSUME IntakeInv, [IntakeNext]_intakeVars
    PROVE  IntakeInv'
  <1>1. CASE UNCHANGED intakeVars
    BY <1>1, StaysAsItIs DEF intakeVars
  <1>2. ASSUME NEW c \in Receivers, ReceiverStep(c)
        PROVE  IntakeInv'
    <2>1. CASE Ends(c) /\ UNCHANGED <<decision, confirmation, intake, conv, shown, created, worker,
                                      dispatched, spent>>
      BY <2>1, EndsQuietly DEF Ends
    <2>2. CASE ReceiverEnds(c)
      BY <2>1, <2>2 DEF ReceiverEnds
    <2> QED
      BY <1>2, <2>2, ReceiveKeeps, ResolveKeeps, HoldKeeps, ChatKeeps, PromoteKeeps, PersistKeeps,
         CompleteKeeps, UpdateKeeps DEF ReceiverStep
  <1>3. ASSUME NEW w \in IntakeWorkers, WorkerStep(w) \/ WorkerDies(w)
        PROVE  IntakeInv'
    BY <1>3, ClaimIntakeKeeps, IngestionKeeps, WorkerMoves, MarkCompletedKeeps, RetryOrFailKeeps
    DEF WorkerStep
  <1>4. ASSUME NEW m \in Messages,
               AcknowledgeEdit(m) \/ RetryFailed(m) \/ GoesStale(m) \/ DelayEnds(m)
        PROVE  IntakeInv'
    BY <1>4, AcknowledgeKeeps, RetryFailedKeeps, TimeMoves
  <1> QED
    BY <1>1, <1>2, <1>3, <1>4, DispatcherKeeps DEF IntakeNext

-----------------------------------------------------------------------------
(* WorkIntake: the further rows of a message that is received again *)

\* Only an ordinary message without a response stream has any, and each is shown once.
Further(m) ==
    /\ again[m].shown + again[m].pending <= again[m].rows
    /\ again[m].rows > 0 => m \in Natural /\ m \notin Streamed /\ decision[m] = "chat_only"

FurtherInv ==
    /\ again \in [Messages -> [rows : Nat, pending : Nat, shown : Nat]]
    /\ \A m \in Messages : Further(m)

LEMMA FurtherStarts == IntakeInit => FurtherInv
  <1>1. NotAgain \in [rows : Nat, pending : Nat, shown : Nat]
        /\ NotAgain.rows = 0 /\ NotAgain.pending = 0 /\ NotAgain.shown = 0
    BY DEF NotAgain
  <1>2. ASSUME IntakeInit PROVE again = [m \in Messages |-> NotAgain]
    BY <1>2, Zenon DEF IntakeInit
  <1> QED
    BY <1>1, <1>2 DEF FurtherInv, Further

\* A classification stands, and so does what it lets a redelivery do.
LEMMA FurtherStays ==
    ASSUME FurtherInv, again' = again,
           \A m \in Messages : decision[m] # "none" => decision'[m] = decision[m]
    PROVE  FurtherInv'
  BY DEF FurtherInv, Further

LEMMA FurtherChange ==
    ASSUME FurtherInv, NEW m \in Messages, NEW a \in [rows : Nat, pending : Nat, shown : Nat],
           again' = [again EXCEPT ![m] = a], decision' = decision,
           a.shown + a.pending <= a.rows,
           a.rows > 0 => m \in Natural /\ m \notin Streamed /\ decision[m] = "chat_only"
    PROVE  FurtherInv'
  <1>1. /\ again' \in [Messages -> [rows : Nat, pending : Nat, shown : Nat]]
        /\ again'[m] = a /\ \A n \in Messages : n # m => again'[n] = again[n]
    BY DEF FurtherInv
  <1> QED
    BY <1>1 DEF FurtherInv, Further

LEMMA FurtherKeeps ==
    ASSUME IntakeInv, FurtherInv, [IntakeNext]_intakeVars
    PROVE  FurtherInv'
  <1>1. ASSUME NEW c \in Receivers, NEW m \in Natural, ReceiveNatural(c, m)
        PROVE  FurtherInv'
    <2>1. PICK d : decision' = [decision EXCEPT ![m] = Decision(m, d)]
      BY <1>1 DEF ReceiveNatural
    <2>2. \A n \in Messages : decision[n] # "none" => decision'[n] = decision[n]
      BY <2>1 DEF IntakeInv, IntakeTypes, Decision
    <2> QED
      BY <1>1, <2>2, FurtherStays DEF ReceiveNatural
  <1>2. ASSUME NEW c \in Receivers, Chat(c)
        PROVE  FurtherInv'
    <2> DEFINE m == receiver[c].message
    <2>1. m \in Messages /\ m \in Natural /\ decision[m] = "chat_only" /\ decision' = decision
      BY <1>2, AtWorkOn DEF Chat, ReceiverKnows
    <2>2. CASE ~AnotherRow(m)
      <3>1. again' = again
        BY <1>2, <2>2 DEF Chat
      <3> QED
        BY <2>1, <3>1, FurtherStays
    <2>3. CASE AnotherRow(m)
      <3>1. PICK s \in {"pending", "delivered"} :
              again' = [again EXCEPT ![m].rows = @ + 1,
                                     ![m].pending = IF s = "pending" THEN @ + 1 ELSE @]
        BY Zenon, <1>2, <2>3 DEF Chat
      <3> DEFINE row == again[m]
                 n == row.rows + 1
                 p == IF s = "pending" THEN row.pending + 1 ELSE row.pending
                 a == [row EXCEPT !.rows = n, !.pending = p]
      <3>2. row \in [rows : Nat, pending : Nat, shown : Nat]
            /\ row.shown + row.pending <= row.rows
        BY <2>1 DEF FurtherInv, Further
      <3>3. a \in [rows : Nat, pending : Nat, shown : Nat] /\ a.shown + a.pending <= a.rows
        <4>1. /\ n \in Nat /\ p \in Nat /\ row.shown \in Nat
              /\ row.shown + p <= n
          BY <3>2
        <4> HIDE DEF n, p, row
        <4>2. a \in [rows : Nat, pending : Nat, shown : Nat]
          BY <3>2, <4>1
        <4>3. a.rows = n /\ a.pending = p /\ a.shown = row.shown
          BY <3>2
        <4> QED
          BY <4>1, <4>2, <4>3
      <3>4. again' = [again EXCEPT ![m] = a]
        BY <2>1, <3>1 DEF FurtherInv
      <3>5. m \notin Streamed
        BY <2>3 DEF AnotherRow
      <3> HIDE DEF a, m
      <3> QED
        BY <2>1, <3>3, <3>4, <3>5, FurtherChange
    <2> QED
      BY <2>2, <2>3
  <1>3. ASSUME NEW m \in Messages, DispatcherShowsAgain(m)
        PROVE  FurtherInv'
    <2> DEFINE row == again[m]
               p == row.pending - 1
               n == row.shown + 1
               a == [row EXCEPT !.pending = p, !.shown = n]
    <2>1. row \in [rows : Nat, pending : Nat, shown : Nat] /\ Further(m)
      BY DEF FurtherInv
    <2>2. again[m].pending > 0 /\ decision' = decision
          /\ again' = [again EXCEPT ![m].pending = @ - 1, ![m].shown = @ + 1]
      BY <1>3 DEF DispatcherShowsAgain
    <2>3. a \in [rows : Nat, pending : Nat, shown : Nat] /\ a.rows = again[m].rows
          /\ a.shown + a.pending <= a.rows
      <3>1. p \in Nat /\ n \in Nat /\ n + p <= row.rows
        BY <2>1, <2>2 DEF Further
      <3> HIDE DEF p, n
      <3>2. a \in [rows : Nat, pending : Nat, shown : Nat]
        BY <2>1, <3>1
      <3>3. a.rows = row.rows /\ a.pending = p /\ a.shown = n
        BY <2>1
      <3> QED
        BY <3>1, <3>2, <3>3
    <2>4. again' = [again EXCEPT ![m] = a]
      BY <2>2 DEF FurtherInv
    <2> HIDE DEF a
    <2> QED
      BY <2>1, <2>2, <2>3, <2>4, FurtherChange DEF Further
  <1>4. ASSUME decision' = decision, again' = again
        PROVE  FurtherInv'
    BY <1>4, FurtherStays
  <1>5. ASSUME NEW c \in Receivers, ReceiverStep(c), ~Chat(c),
               ~\E m \in Natural : ReceiveNatural(c, m)
        PROVE  decision' = decision /\ again' = again
    BY <1>5 DEF ReceiverStep, Resolve, ReceiveExplicit, Hold, Promote, Persist, CompleteEffect,
         UpdateConversation, ReceiverEnds
  <1>6. ASSUME NEW w \in IntakeWorkers, WorkerStep(w) \/ WorkerDies(w)
        PROVE  decision' = decision /\ again' = again
    BY <1>6 DEF WorkerStep, ClaimIntake, IngestIntake, IngestFails, MarkCompleted, RetryOrFail,
         WorkerDies
  <1>7. ASSUME NEW m \in Messages,
               AcknowledgeEdit(m) \/ RetryFailed(m) \/ GoesStale(m) \/ DelayEnds(m)
        PROVE  decision' = decision /\ again' = again
    BY <1>7 DEF AcknowledgeEdit, RetryFailed, GoesStale, DelayEnds
  <1>8. ASSUME (\E r \in Convs : DispatcherClaims(r)) \/ DispatcherDelivers
        PROVE  decision' = decision /\ again' = again
    BY <1>8 DEF DispatcherClaims, DispatcherDelivers
  <1>9. ASSUME UNCHANGED intakeVars
        PROVE  decision' = decision /\ again' = again
    BY <1>9 DEF intakeVars
  <1> QED
    BY <1>1, <1>2, <1>3, <1>4, <1>5, <1>6, <1>7, <1>8, <1>9 DEF IntakeNext

LEMMA IntakeSays ==
    ASSUME IntakeInv, FurtherInv
    PROVE  IntakeTypeOK /\ OneFate /\ RowsShownOnce /\ IntakeTellsTruth
  <1>1. \A m \in Messages : ChoiceOf(m) /\ ChatRow(m) /\ QueueRow(m)
    BY DEF IntakeInv
  <1>2. IntakeTypeOK
    <2>1. \A m \in Messages :
            /\ (intake[m].status = "absent") = (conv[<<m, "task">>].status = "absent")
            /\ intake[m].stale => intake[m].status = "processing"
            /\ intake[m].waits => intake[m].status = "pending"
      BY <1>1 DEF QueueRow
    <2>2. \A w \in IntakeWorkers :
             worker[w].pc # "idle" => intake[worker[w].message].status # "absent"
      BY DEF IntakeInv, WorkerKnows
    <2> QED
      BY <2>1, <2>2
      DEF FurtherInv, IntakeInv, IntakeTypes, IntakeTypeOK, Confirmed, Intake, Conversation, ReceiverState,
          WorkerState
  <1>3. OneFate
    <2> SUFFICES ASSUME NEW m \in Natural
                 PROVE  /\ ~(GivenToAgent(m) /\ intake[m].status # "absent")
                        /\ confirmation[m].effect = "applied" =>
                              CASE confirmation[m].choice = "create_task" ->
                                      intake[m].status # "absent"
                                [] confirmation[m].choice = "chat_only" ->
                                      conv[<<m, "chat">>].action = "chat_only"
                                [] confirmation[m].choice = "edit" ->
                                      ~GivenToAgent(m) /\ intake[m].status = "absent"
      BY DEF OneFate
    <2>1. ChoiceOf(m) /\ ChatRow(m) /\ IntentRow(m)
      BY <1>1, NaturalMessages DEF IntakeInv
    <2>3. GivenToAgent(m) => ForAgent(m)
      <3>1. /\ again[m].shown + again[m].pending <= again[m].rows
            /\ again[m].rows > 0 => decision[m] = "chat_only"
            /\ again[m] \in [rows : Nat, pending : Nat, shown : Nat]
        BY NaturalMessages DEF FurtherInv, Further
      <3> QED
        BY <2>1, <3>1 DEF GivenToAgent, GivenFirst, ChatRow, ForAgent
    <2>2. ~(GivenToAgent(m) /\ intake[m].status # "absent")
      BY <2>1, <2>3 DEF IntentRow, ChoiceOf, ForAgent, ForQueue
    <2>4. ASSUME confirmation[m].effect = "applied"
          PROVE  CASE confirmation[m].choice = "create_task" -> intake[m].status # "absent"
                   [] confirmation[m].choice = "chat_only" ->
                         conv[<<m, "chat">>].action = "chat_only"
                   [] confirmation[m].choice = "edit" ->
                         ~GivenToAgent(m) /\ intake[m].status = "absent"
      <3>1. confirmation[m].choice \in Actions
        BY <2>1, <2>4 DEF ChoiceOf
      <3>2. CASE confirmation[m].choice = "create_task"
        BY <2>1, <2>4, <3>2 DEF ChoiceOf
      <3>3. CASE confirmation[m].choice = "chat_only"
        BY <2>1, <2>4, <3>3 DEF ChatRow
      <3>4. CASE confirmation[m].choice = "edit"
        <4>1. ~GivenToAgent(m) /\ intake[m].status = "absent"
          BY <2>1, <2>3, <3>4 DEF IntentRow, ChoiceOf, ForAgent, ForQueue
        <4> QED
          BY <3>4, <4>1
      <3> QED
        BY <3>1, <3>2, <3>3, <3>4 DEF Actions
    <2> QED
      BY <2>2, <2>4
  <1>5. RowsShownOnce
    <2> SUFFICES ASSUME NEW m \in Natural
                 PROVE  /\ shown[<<m, "chat">>] <= 1 /\ shown[<<m, "task">>] = 0
                        /\ again[m].shown + again[m].pending <= again[m].rows
                        /\ again[m].rows > 0 => m \notin Streamed /\ decision[m] = "chat_only"
                                                /\ confirmation[m].choice = "absent"
      BY DEF RowsShownOnce
    <2>1. ChoiceOf(m) /\ ChatRow(m) /\ IntentRow(m) /\ Further(m)
      BY <1>1, NaturalMessages DEF IntakeInv, FurtherInv
    <2> QED
      BY <2>1 DEF ChoiceOf, ChatRow, IntentRow, Further
  <1>4. IntakeTellsTruth
    BY <1>1 DEF QueueRow, IntakeTellsTruth
  <1> QED
    BY <1>2, <1>3, <1>4, <1>5

-----------------------------------------------------------------------------
(* The projection: what the outbox tells of the tasks, and the workers of the outbox *)

OutboxTells ==
    /\ \A i, j \in 1..Len(outbox) : outbox[i] = outbox[j] => i = j
    /\ \A i \in 1..Len(outbox) : outbox[i][2] <= task[outbox[i][1]].version
    /\ \A t \in Tasks : task[t] # NoTask =>
          \E i \in 1..Len(outbox) : outbox[i] = <<t, task[t].version>>

\* Nothing is left to do for a row that is superseded, or whose snapshot the remote has.
RowDone(i) ==
    \/ outbox[i][2] < task[outbox[i][1]].version
    \/ outbox[i] \in accepted /\ outbox[i][1] \in linked

AckedAreDone ==
    \A i \in OutboxRows : delivery[i].status = "acknowledged" =>
        i \in 1..Len(outbox) /\ RowDone(i)

\* A worker counts as published what is done, and the snapshot it sends is of this version
\* or of a later one.
Knows(p) ==
    LET row == p.batch[p.at].row
    IN  /\ p.pc = "idle" => p = Resting
        /\ p.pc # "idle" => p.at \in 1..Len(p.batch)
        /\ Len(p.batch) <= BatchSize
        /\ \A k \in 1..Len(p.batch) :
              /\ p.batch[k].row \in 1..Len(outbox)
              /\ p.batch[k].outcome = "published" => RowDone(p.batch[k].row)
        /\ p.pc \in {"resolve", "call"} =>
              outbox[row][2] <= p.snapshot /\ p.snapshot <= task[outbox[row][1]].version

ProjectionTypes ==
    /\ baseline \in 0..MaxRows \cup {Unregistered}
    /\ delivery \in [OutboxRows -> Delivery]
    /\ linked \subseteq Tasks
    /\ publisher \in [Publishers -> Publisher]
    /\ accepted \subseteq Tasks \X Versions
    /\ faults \in 0..MaxFaults

ProjectionInv ==
    /\ TasksIInv /\ OutboxTells /\ ProjectionTypes /\ AckedAreDone
    /\ \A w \in Publishers : Knows(publisher[w])

\* The rows of the outbox, of which no two say the same, are at most the versions of the tasks.
LEMMA RowsFit ==
    ASSUME OutboxTells, TasksTypeOK
    PROVE  /\ Len(outbox) \in Nat /\ Len(outbox) <= MaxRows /\ MaxRows \in Nat
           /\ 1..Len(outbox) \subseteq OutboxRows
           /\ \A i \in 1..Len(outbox) :
                 /\ outbox[i] \in Tasks \X Versions
                 /\ outbox[i] = <<outbox[i][1], outbox[i][2]>>
                 /\ outbox[i][1] \in Tasks /\ outbox[i][2] \in 1..MaxVersion
  <1>1. /\ outbox \in [1..Len(outbox) -> Tasks \X Versions] /\ Len(outbox) \in Nat
        /\ \A i \in 1..Len(outbox) : outbox[i] \in Tasks \X Versions
    BY DEF TasksTypeOK, Versions
  <1>2. outbox \in Injection(1..Len(outbox), Tasks \X Versions)
    BY <1>1 DEF OutboxTells, Injection, IsInjective
  <1>3. IsFiniteSet(Versions) /\ Cardinality(Versions) = MaxVersion
    BY FS_Interval, TaskRunsAssumption DEF Versions
  <1>4. /\ IsFiniteSet(Tasks \X Versions)
        /\ Cardinality(Tasks \X Versions) = Cardinality(Tasks) * Cardinality(Versions)
    BY <1>3, FS_Product, TaskProjectionAssumption
  <1>5. Cardinality(1..Len(outbox)) <= Cardinality(Tasks \X Versions)
    BY <1>2, <1>4, FS_Injection
  <1>6. Cardinality(1..Len(outbox)) = Len(outbox)
    BY <1>1, FS_Interval
  <1>7. Cardinality(Tasks) \in Nat
    BY FS_CardinalityType, TaskProjectionAssumption
  <1>8. \A m, n \in Nat : m * n = n * m /\ m * n \in Nat
    OBVIOUS
  <1>9. Len(outbox) <= MaxRows /\ MaxRows \in Nat
    BY <1>3, <1>4, <1>5, <1>6, <1>7, <1>8, TaskRunsAssumption DEF MaxRows
  <1> QED
    BY <1>1, <1>9 DEF OutboxRows, Versions

\* What an operation on a task, if it moves the task, does to the outbox.
Posted(t, to) ==
    /\ task[t].version + 1 <= MaxVersion
    /\ task' = [task EXCEPT ![t] = [state |-> to, version |-> task[t].version + 1]]
    /\ outbox' = Append(outbox, <<t, task[t].version + 1>>)

LEMMA TasksPost ==
    ASSUME TasksIInv, TaskStep \/ Sweep
    PROVE  \/ UNCHANGED <<task, outbox>>
           \/ \E t \in Tasks, to \in TaskStates : Posted(t, to)
  <1>1. ASSUME NEW t \in Tasks, NEW to \in TaskStates, NEW type, TaskMoves(t, to, type)
        PROVE  \E u \in Tasks, state \in TaskStates : Posted(u, state)
    BY <1>1 DEF TaskMoves, Posted
  <1>2. ASSUME NEW t \in Tasks, Ingest(t)
        PROVE  \E u \in Tasks, state \in TaskStates : Posted(u, state)
    BY <1>1, <1>2 DEF Ingest, TaskStates
  <1>3. ASSUME NEW t \in Tasks, NEW type \in CommandTypes, NEW actor, Command(t, type, actor)
        PROVE  \E u \in Tasks, state \in TaskStates : Posted(u, state)
    BY <1>1, <1>3, CommandMoves
  <1>4. ASSUME NEW r \in Runs, NEW t \in Tasks, NEW w, Claim(r, t, w)
        PROVE  \/ UNCHANGED <<task, outbox>>
               \/ \E u \in Tasks, state \in TaskStates : Posted(u, state)
    BY <1>1, <1>4 DEF Claim, Started, TaskStates
  <1>5. ASSUME NEW r \in Runs, NEW w, Complete(r, w) \/ Release(r, w)
        PROVE  \E u \in Tasks, state \in TaskStates : Posted(u, state)
    <2>1. run[r].task \in Tasks
      BY <1>5, NoRunRow DEF Complete, Release, Finish, HoldsLease, TasksIInv, TasksTypeOK, Run
    <2> QED
      BY <1>1, <1>5, <2>1 DEF Complete, Release, Finish, TaskStates
  <1>6. CASE Sweep
    BY <1>6 DEF Sweep
  <1>7. ASSUME NEW r, NEW w, Heartbeat(r, w) \/ RunLeaseEnds(r)
        PROVE  UNCHANGED <<task, outbox>>
    BY <1>7 DEF Heartbeat, RunLeaseEnds
  <1>8. CASE TaskStep
    BY <1>2, <1>3, <1>4, <1>5, <1>7, <1>8 DEF TaskStep
  <1> QED
    BY <1>6, <1>8

\* Rows stay, and versions only grow.
Grown ==
    /\ Len(outbox) <= Len(outbox)'
    /\ \A i \in 1..Len(outbox) : outbox'[i] = outbox[i]
    /\ \A t \in Tasks : task[t].version \in Nat /\ task'[t].version \in Nat
                        /\ task[t].version <= task'[t].version

LEMMA OutboxGrows ==
    ASSUME TasksIInv, TasksIInv', OutboxTells, NEW t \in Tasks, NEW to \in TaskStates, Posted(t, to)
    PROVE  OutboxTells' /\ Grown
  <1> DEFINE n == Len(outbox)
             v == task[t].version + 1
             next == [state |-> to, version |-> v]
  <1>1. /\ n \in Nat /\ outbox \in Seq(Tasks \X (1..MaxVersion))
        /\ \A u \in Tasks : task[u].version \in Nat /\ task'[u].version \in Nat
        /\ \A u \in Tasks : task[u] = NoTask <=> task[u].version = 0
        /\ v \in 1..MaxVersion
    BY TaskRow, TaskRunsAssumption DEF TasksIInv, TasksTypeOK, Posted
  <1>2. /\ Len(outbox') = n + 1 /\ outbox'[n + 1] = <<t, v>>
        /\ \A i \in 1..n : outbox'[i] = outbox[i]
    BY <1>1, AppendProperties DEF Posted
  <1>3. task' = [task EXCEPT ![t] = next] /\ next.version = v
    BY DEF Posted
  <1> HIDE DEF next
  <1>4. task'[t] = next /\ \A u \in Tasks \ {t} : task'[u] = task[u]
    BY <1>3 DEF TasksIInv, TasksTypeOK
  <1>5. \A u \in Tasks : task[u].version <= task'[u].version
    BY <1>1, <1>3, <1>4
  <1>6. Grown
    BY <1>1, <1>2, <1>5 DEF Grown
  <1>7. \A i \in 1..n : outbox[i] \in Tasks \X (1..MaxVersion)
    BY <1>1
  <1>8. \A i \in 1..n : outbox[i] # <<t, v>>
    BY <1>1, <1>7 DEF OutboxTells
  <1>9. \A i, j \in 1..n + 1 : outbox'[i] = outbox'[j] => i = j
    <2>1. \A i \in 1..n + 1 : i = n + 1 \/ i \in 1..n
      BY <1>1
    <2> QED
      BY <1>2, <1>8, <2>1 DEF OutboxTells
  <1>10. \A i \in 1..n + 1 : outbox'[i][2] <= task'[outbox'[i][1]].version
    <2> SUFFICES ASSUME NEW i \in 1..n + 1
                 PROVE  outbox'[i][2] <= task'[outbox'[i][1]].version
      OBVIOUS
    <2>1. CASE i = n + 1
      BY <1>1, <1>2, <1>3, <1>4, <2>1
    <2>2. CASE i \in 1..n
      <3>1. outbox[i][1] \in Tasks /\ outbox[i][2] \in Nat /\ outbox'[i] = outbox[i]
        BY <1>2, <1>7, <2>2
      <3>2. outbox[i][2] <= task[outbox[i][1]].version
        BY <2>2 DEF OutboxTells
      <3> QED
        BY SMTT(30), <1>1, <1>5, <3>1, <3>2
    <2> QED
      BY <1>1, <2>1, <2>2
  <1>11. ASSUME NEW u \in Tasks, task'[u] # NoTask
         PROVE  \E i \in 1..n + 1 : outbox'[i] = <<u, task'[u].version>>
    <2>1. CASE u = t
      <3>1. n + 1 \in 1..n + 1
        BY <1>1
      <3> QED
        BY <1>2, <1>3, <1>4, <2>1, <3>1
    <2>2. CASE u # t
      <3>1. PICK i \in 1..n : outbox[i] = <<u, task[u].version>>
        BY <1>4, <1>11, <2>2 DEF OutboxTells
      <3>2. i \in 1..n + 1
        BY <1>1
      <3> QED
        BY <1>2, <1>4, <2>2, <3>1, <3>2
    <2> QED
      BY <2>1, <2>2
  <1> QED
    BY <1>2, <1>6, <1>9, <1>10, <1>11 DEF OutboxTells

LEMMA OutboxStays ==
    ASSUME TasksIInv, OutboxTells, UNCHANGED <<task, outbox>>
    PROVE  OutboxTells' /\ Grown
  <1>1. Len(outbox) \in Nat /\ \A t \in Tasks : task[t].version \in Nat
    BY TaskRow DEF TasksIInv, TasksTypeOK
  <1>2. OutboxTells'
    BY DEF OutboxTells
  <1>3. Grown
    BY <1>1 DEF Grown
  <1> QED
    BY <1>2, <1>3

\* What is done stays done, and what a worker knows stays true.
LEMMA DoneStays ==
    ASSUME TasksTypeOK, OutboxTells, Grown, accepted \subseteq accepted', linked \subseteq linked',
           NEW i \in 1..Len(outbox), RowDone(i)
    PROVE  RowDone(i)' /\ i \in 1..Len(outbox)'
  <1>1. outbox[i][1] \in Tasks /\ outbox[i][2] \in Nat /\ outbox'[i] = outbox[i]
    BY RowsFit DEF Grown
  <1>2. Len(outbox) \in Nat /\ i \in 1..Len(outbox)'
    BY RowsFit DEF Grown
  <1> QED
    BY <1>1, <1>2 DEF RowDone, Grown

LEMMA KnowsStays ==
    ASSUME TasksTypeOK, TasksTypeOK', OutboxTells, Grown,
           accepted \subseteq accepted', linked \subseteq linked',
           NEW p \in Publisher, Knows(p)
    PROVE  Knows(p)'
  <1> DEFINE row == p.batch[p.at].row
  <1>1. /\ Len(outbox) \in Nat /\ Len(outbox)' \in Nat /\ Len(outbox) <= Len(outbox)'
        /\ Len(p.batch) \in Nat
    BY RowsFit DEF Grown, Publisher, TasksTypeOK
  <1>2. \A k \in 1..Len(p.batch) :
          /\ p.batch[k].row \in 1..Len(outbox) /\ p.batch[k].row \in 1..Len(outbox)'
          /\ p.batch[k].outcome = "published" => RowDone(p.batch[k].row)'
    BY <1>1, DoneStays DEF Knows
  <1>3. ASSUME p.pc \in {"resolve", "call"}
        PROVE  outbox'[row][2] <= p.snapshot /\ p.snapshot <= task'[outbox'[row][1]].version
    <2>1. row \in 1..Len(outbox)
      BY <1>3 DEF Knows
    <2>2. outbox'[row] = outbox[row] /\ outbox[row][1] \in Tasks
      BY <2>1, RowsFit DEF Grown
    <2>3. p.snapshot \in Nat
      BY TaskRunsAssumption DEF Publisher
    <2>4. outbox[row][2] <= p.snapshot /\ p.snapshot <= task[outbox[row][1]].version
      BY <1>3 DEF Knows
    <2> QED
      BY <2>2, <2>3, <2>4 DEF Grown
  <1> QED
    BY <1>2, <1>3 DEF Knows

LEMMA TaskMovesKeep ==
    ASSUME ProjectionInv,
           ((TaskStep \/ Sweep) /\ UNCHANGED projectionVars) \/ UNCHANGED boardVars
    PROVE  ProjectionInv'
  <1>1. /\ TasksIInv /\ TasksTypeOK /\ OutboxTells
        /\ ProjectionTypes /\ AckedAreDone /\ \A w \in Publishers : Knows(publisher[w])
    BY DEF ProjectionInv, TasksIInv
  <1>2. TaskStep \/ Sweep \/ UNCHANGED taskVars
    BY DEF boardVars, taskVars
  <1>3. TasksIInv' /\ TasksTypeOK'
    BY <1>1, <1>2, TaskStepKeeps DEF TasksIInv
  <1>4. UNCHANGED <<task, outbox>> \/ \E t \in Tasks, to \in TaskStates : Posted(t, to)
    BY <1>1, <1>2, TasksPost DEF taskVars
  <1>5. OutboxTells' /\ Grown
    BY <1>1, <1>3, <1>4, OutboxGrows, OutboxStays
  <1>6. UNCHANGED projectionVars
    BY DEF boardVars, projectionVars
  <1>7. ProjectionTypes'
    BY <1>1, <1>6 DEF ProjectionTypes, projectionVars
  <1>8. AckedAreDone'
    BY <1>1, <1>5, <1>6, DoneStays DEF AckedAreDone, projectionVars
  <1>9. ASSUME NEW w \in Publishers
        PROVE  Knows(publisher[w])'
    <2>1. PICK p \in Publisher : p = publisher[w] /\ p = publisher'[w]
      BY <1>1, <1>6 DEF ProjectionTypes, projectionVars
    <2>2. Knows(p)'
      BY <1>1, <1>3, <1>5, <1>6, <2>1, KnowsStays DEF projectionVars
    <2> QED
      BY <2>1, <2>2 DEF Knows
  <1> QED
    BY <1>3, <1>5, <1>7, <1>8, <1>9 DEF ProjectionInv

\* A step of the outbox or of a worker: what it must see to.
LEMMA ProjectionFrame ==
    ASSUME ProjectionInv, UNCHANGED taskVars, ProjectionTypes',
           accepted \subseteq accepted', linked \subseteq linked',
           \A i \in OutboxRows : delivery'[i].status = "acknowledged" =>
              delivery[i].status = "acknowledged" \/ (i \in 1..Len(outbox) /\ RowDone(i)),
           \A w \in Publishers : publisher'[w] = publisher[w] \/ Knows(publisher[w])'
    PROVE  ProjectionInv'
  <1>1. /\ TasksIInv /\ TasksTypeOK /\ OutboxTells
        /\ ProjectionTypes /\ AckedAreDone /\ \A w \in Publishers : Knows(publisher[w])
    BY DEF ProjectionInv, TasksIInv
  <1>2. TasksIInv' /\ TasksTypeOK'
    BY <1>1, TaskStepKeeps DEF TasksIInv
  <1>3. OutboxTells' /\ Grown
    BY <1>1, OutboxStays DEF taskVars
  <1>4. AckedAreDone'
    BY <1>1, <1>3, DoneStays DEF AckedAreDone
  <1>5. ASSUME NEW w \in Publishers, publisher'[w] = publisher[w]
        PROVE  Knows(publisher[w])'
    <2>1. PICK p \in Publisher : p = publisher[w] /\ p = publisher'[w]
      BY <1>1, <1>5 DEF ProjectionTypes
    <2>2. Knows(p)'
      BY <1>1, <1>2, <1>3, <2>1, KnowsStays
    <2> QED
      BY <2>1, <2>2 DEF Knows
  <1> QED
    BY <1>2, <1>3, <1>4, <1>5 DEF ProjectionInv

\* One delivery changes.
LEMMA DeliveryChanges ==
    ASSUME ProjectionInv, UNCHANGED <<taskVars, baseline, linked, accepted>>,
           NEW i \in OutboxRows, NEW row \in Delivery, delivery' = [delivery EXCEPT ![i] = row],
           row.status = "acknowledged" => i \in 1..Len(outbox) /\ RowDone(i),
           faults' \in 0..MaxFaults, publisher' \in [Publishers -> Publisher],
           \A w \in Publishers : publisher'[w] = publisher[w] \/ Knows(publisher[w])'
    PROVE  ProjectionInv'
  <1>1. ProjectionTypes
    BY DEF ProjectionInv
  <1>2. /\ delivery' \in [OutboxRows -> Delivery]
        /\ \A j \in OutboxRows : delivery'[j] = IF j = i THEN row ELSE delivery[j]
    BY <1>1 DEF ProjectionTypes
  <1>3. ProjectionTypes'
    BY <1>1, <1>2 DEF ProjectionTypes
  <1>4. \A j \in OutboxRows : delivery'[j].status = "acknowledged" =>
          delivery[j].status = "acknowledged" \/ (j \in 1..Len(outbox) /\ RowDone(j))
    BY <1>2
  <1> QED
    BY <1>3, <1>4, ProjectionFrame

\* One worker goes on.
LEMMA PublisherMoves ==
    ASSUME ProjectionInv, UNCHANGED <<taskVars, baseline, delivery>>,
           accepted \subseteq accepted', linked \subseteq linked',
           accepted' \subseteq Tasks \X Versions, linked' \subseteq Tasks,
           NEW w \in Publishers, NEW next \in Publisher,
           publisher' = [publisher EXCEPT ![w] = next], Knows(next)',
           faults' \in 0..MaxFaults
    PROVE  ProjectionInv'
  <1>1. ProjectionTypes
    BY DEF ProjectionInv
  <1>2. /\ publisher' \in [Publishers -> Publisher]
        /\ \A v \in Publishers : publisher'[v] = IF v = w THEN next ELSE publisher[v]
    BY <1>1 DEF ProjectionTypes
  <1>3. ProjectionTypes'
    BY <1>1, <1>2 DEF ProjectionTypes
  <1>4. ASSUME NEW v \in Publishers
        PROVE  publisher'[v] = publisher[v] \/ Knows(publisher[v])'
    <2>1. CASE v = w
      <3>1. publisher'[v] = next
        BY <1>2, <2>1
      <3> QED
        BY <3>1 DEF Knows
    <2> QED
      BY <1>2, <2>1
  <1> QED
    BY <1>3, <1>4, ProjectionFrame

LEMMA Rests == Resting \in Publisher /\ Knows(Resting) /\ Knows(Resting)'
  <1>1. Resting \in Publisher
    BY TaskProjectionAssumption, TaskRunsAssumption, EmptySeq DEF Resting, Publisher
  <1>2. Resting.pc = "idle" /\ Resting.batch = <<>> /\ Len(Resting.batch) = 0
    BY DEF Resting
  <1> QED
    BY <1>1, <1>2, TaskProjectionAssumption DEF Knows

LEMMA RegisterKeeps ==
    ASSUME ProjectionInv, NEW policy, Register(policy)
    PROVE  ProjectionInv'
  <1>1. ProjectionTypes /\ OutboxTells /\ TasksTypeOK
    BY DEF ProjectionInv, TasksIInv
  <1>2. baseline' \in 0..MaxRows
    BY <1>1, RowsFit DEF Register
  <1>3. ProjectionTypes' /\ UNCHANGED <<taskVars, accepted, linked, delivery, publisher>>
    BY <1>1, <1>2 DEF Register, ProjectionTypes
  <1> QED
    BY <1>3, ProjectionFrame

LEMMA OperatorKeeps ==
    ASSUME ProjectionInv, NEW i \in OutboxRows, Redrive(i) \/ RetryDue(i) \/ LeaseEnds(i)
    PROVE  ProjectionInv'
  <1> DEFINE d == delivery[i]
             renewed == [d EXCEPT !.status = "retry_wait", !.attempt = 0,
                                !.version = d.version + 1, !.generation = d.generation + 1]
             due == [d EXCEPT !.waits = FALSE]
  <1>1. ProjectionTypes /\ d \in Delivery
    BY DEF ProjectionInv, ProjectionTypes
  <1>2. d.generation < MaxRedrives => renewed \in Delivery /\ renewed.status = "retry_wait"
    <2>1. /\ d.version + 1 \in Nat /\ 0 \in Nat
          /\ d.generation < MaxRedrives => d.generation + 1 \in 0..MaxRedrives
      BY <1>1, TaskProjectionAssumption DEF Delivery
    <2> QED
      BY <1>1, <2>1, Zenon DEF Delivery
  <1>3. due \in Delivery /\ due.status = d.status
    BY <1>1 DEF Delivery
  <1>4. faults' \in 0..MaxFaults
    BY <1>1, TaskProjectionAssumption DEF ProjectionTypes, Redrive, RetryDue, LeaseEnds
  <1>5. publisher' = publisher /\ UNCHANGED <<taskVars, baseline, linked, accepted>>
    BY DEF Redrive, RetryDue, LeaseEnds
  <1>6. publisher' \in [Publishers -> Publisher]
    BY <1>1, <1>5 DEF ProjectionTypes
  <1>7. CASE Redrive(i)
    <2>1. delivery' = [delivery EXCEPT ![i] = renewed] /\ d.generation < MaxRedrives
      BY <1>7, Zenon DEF Redrive
    <2> HIDE DEF renewed
    <2> QED
      BY <1>2, <1>4, <1>5, <1>6, <2>1, DeliveryChanges
  <1>8. CASE RetryDue(i) \/ LeaseEnds(i)
    <2>1. delivery' = [delivery EXCEPT ![i] = due] /\ d.status # "acknowledged"
      <3>1. CASE RetryDue(i)
        BY <3>1, Zenon DEF RetryDue
      <3>2. CASE LeaseEnds(i)
        BY <3>2, Zenon DEF LeaseEnds
      <3> QED
        BY <1>8, <3>1, <3>2
    <2> HIDE DEF due
    <2> QED
      BY <1>3, <1>4, <1>5, <1>6, <2>1, DeliveryChanges
  <1> QED
    BY <1>7, <1>8

\* The batch of a claim: rows of the outbox, in its order and no more than the limit.
LEMMA ClaimFits ==
    ASSUME TasksTypeOK, OutboxTells, ProjectionTypes,
           NEW rows \in [1..Cardinality(Chosen) -> Chosen],
           \A k, l \in DOMAIN rows : k < l => rows[k] < rows[l]
    PROVE  /\ Chosen \subseteq 1..Len(outbox) /\ Chosen \subseteq OutboxRows
           /\ Cardinality(Chosen) \in 0..BatchSize
           /\ Chosen # {} => Cardinality(Chosen) \in 1..BatchSize
  <1>1. /\ Candidates \subseteq 1..Len(outbox) /\ Chosen \subseteq Candidates
        /\ Len(outbox) \in Nat /\ 1..Len(outbox) \subseteq OutboxRows
    BY RowsFit DEF Candidates, Chosen
  <1>2. IsFiniteSet(1..Len(outbox))
    BY <1>1, FS_Interval
  <1>3. IsFiniteSet(Candidates) /\ IsFiniteSet(Chosen)
    BY <1>1, <1>2, FS_Subset
  <1> DEFINE n == Cardinality(Chosen)
  <1>4. n \in Nat /\ (Chosen # {} => n > 0)
    BY <1>3, FS_CardinalityType, FS_EmptySet
  <1>5. ASSUME n > 0
        PROVE  n <= BatchSize
    <2> DEFINE Before == {j \in Candidates : j < rows[n]}
               earlier == [k \in 1..n - 1 |-> rows[k]]
    <2>1. n \in 1..n /\ rows[n] \in Chosen
      BY <1>4, <1>5
    <2>2. Cardinality(Before) < BatchSize
      BY <2>1 DEF Chosen
    <2>3. IsFiniteSet(Before)
      BY <1>3, FS_Subset
    <2>4. \A k \in 1..n - 1 : k \in 1..n /\ rows[k] \in Before
      <3> SUFFICES ASSUME NEW k \in 1..n - 1 PROVE k \in 1..n /\ rows[k] \in Before
        OBVIOUS
      <3>1. k \in 1..n /\ k < n
        BY <1>4
      <3>2. rows[k] < rows[n] /\ rows[k] \in Candidates
        BY <1>1, <2>1, <3>1
      <3> QED
        BY <3>1, <3>2
    <2>5. \A k, l \in 1..n - 1 : rows[k] = rows[l] => k = l
      <3> SUFFICES ASSUME NEW k \in 1..n - 1, NEW l \in 1..n - 1, rows[k] = rows[l]
                   PROVE  k = l
        OBVIOUS
      <3>1. k \in 1..n /\ l \in 1..n /\ k \in Nat /\ l \in Nat
        BY <1>4, <2>4
      <3>2. rows[k] \in Nat /\ rows[l] \in Nat
        <4>1. Chosen \subseteq Nat
          BY <1>1
        <4> QED
          BY <3>1, <4>1
      <3>3. ~(k < l) /\ ~(l < k)
        BY <3>1, <3>2
      <3> QED
        BY <3>1, <3>3
    <2>6. earlier \in Injection(1..n - 1, Before)
      BY <2>4, <2>5 DEF Injection, IsInjective
    <2>7. Cardinality(1..n - 1) <= Cardinality(Before)
      BY <2>3, <2>6, FS_Injection
    <2>8. Cardinality(1..n - 1) = n - 1
      BY <1>4, <1>5, FS_Interval
    <2>9. Cardinality(Before) \in Nat
      BY <2>3, FS_CardinalityType
    <2> QED
      BY <1>4, <2>2, <2>7, <2>8, <2>9, TaskProjectionAssumption
  <1> QED
    BY <1>1, <1>4, <1>5, TaskProjectionAssumption

LEMMA ClaimBatchKeeps ==
    ASSUME ProjectionInv, NEW w \in Publishers, ClaimBatch(w)
    PROVE  ProjectionInv'
  <1>1. /\ ProjectionTypes /\ OutboxTells /\ TasksTypeOK
        /\ Chosen # {} /\ UNCHANGED <<taskVars, baseline, linked, accepted, faults>>
    BY DEF ProjectionInv, TasksIInv, ClaimBatch
  <1> DEFINE n == Cardinality(Chosen)
             leasedNow(i) == [delivery[i] EXCEPT !.status = "leased", !.attempt = @ + 1,
                                !.version = @ + 1, !.worker = w, !.waits = TRUE]
             entry(i) == [row |-> i, version |-> delivery[i].version + 1, outcome |-> "none"]
  <1>2. PICK rows \in [1..n -> Chosen] :
          /\ \A k, l \in DOMAIN rows : k < l => rows[k] < rows[l]
          /\ publisher' = [publisher EXCEPT ![w] = [Resting EXCEPT
                 !.pc = "publish", !.at = 1, !.batch = [k \in DOMAIN rows |-> entry(rows[k])]]]
    BY DEF ClaimBatch
  <1>3. /\ Chosen \subseteq 1..Len(outbox) /\ Chosen \subseteq OutboxRows
        /\ n \in 1..BatchSize /\ DOMAIN rows = 1..n
    BY <1>1, <1>2, ClaimFits
  <1>4. \A i \in OutboxRows : leasedNow(i) \in Delivery /\ leasedNow(i).status = "leased"
    <2> SUFFICES ASSUME NEW i \in OutboxRows
                 PROVE  leasedNow(i) \in Delivery /\ leasedNow(i).status = "leased"
      OBVIOUS
    <2>1. /\ delivery[i] \in Delivery /\ delivery[i].version + 1 \in Nat
          /\ delivery[i].attempt + 1 \in Nat
      BY <1>1 DEF ProjectionTypes, Delivery
    <2> QED
      BY <2>1, Zenon DEF Delivery
  <1>5. delivery' = [i \in OutboxRows |-> IF i \in Chosen THEN leasedNow(i) ELSE delivery[i]]
    BY DEF ClaimBatch
  <1> HIDE DEF leasedNow
  <1>6. /\ delivery' \in [OutboxRows -> Delivery]
        /\ \A i \in OutboxRows : delivery'[i].status = "acknowledged" =>
              delivery[i].status = "acknowledged"
    BY <1>1, <1>4, <1>5 DEF ProjectionTypes
  <1> DEFINE picked == [k \in 1..n |-> entry(rows[k])]
             next == [Resting EXCEPT !.pc = "publish", !.at = 1, !.batch = picked]
  <1>7. publisher' = [publisher EXCEPT ![w] = next]
    BY <1>2, <1>3
  <1>8. \A i \in Chosen : entry(i) \in Entry /\ entry(i).row = i /\ entry(i).outcome = "none"
    <2> SUFFICES ASSUME NEW i \in Chosen
                 PROVE  entry(i) \in Entry /\ entry(i).row = i /\ entry(i).outcome = "none"
      OBVIOUS
    <2>1. i \in OutboxRows /\ delivery[i].version + 1 \in Nat
      BY <1>1, <1>3 DEF ProjectionTypes, Delivery
    <2> QED
      BY <2>1 DEF Entry, Outcomes
  <1> HIDE DEF entry
  <1>9. /\ picked \in Seq(Entry) /\ Len(picked) = n
        /\ \A k \in 1..n : picked[k].row \in 1..Len(outbox) /\ picked[k].outcome = "none"
    <2>1. \A k \in 1..n : rows[k] \in Chosen /\ picked[k] \in Entry /\ picked[k] = entry(rows[k])
      BY <1>2, <1>8
    <2>2. n \in Nat
      BY <1>3, TaskProjectionAssumption
    <2>3. picked \in Seq(Entry) /\ Len(picked) = n
      BY <2>1, <2>2
    <2> QED
      BY <1>3, <1>8, <2>1, <2>3
  <1> HIDE DEF picked
  <1>10. next.pc = "publish" /\ next.at = 1 /\ next.batch = picked /\ next.snapshot = 0
         /\ next = [pc |-> "publish", batch |-> picked, at |-> 1, snapshot |-> 0]
    <2>1. Resting \in Publisher /\ Resting.snapshot = 0
      BY Rests DEF Resting
    <2>2. PICK rest \in Publisher : rest = Resting /\ rest.snapshot = 0
      BY <2>1
    <2>3. next = [rest EXCEPT !.pc = "publish", !.at = 1, !.batch = picked]
      BY <2>2, Zenon
    <2> HIDE DEF next
    <2> QED
      BY <2>2, <2>3 DEF Publisher
  <1> HIDE DEF next
  <1>11. next \in Publisher
    <2>1. 1 \in 0..BatchSize + 1 /\ 0 \in 0..MaxVersion
      BY TaskProjectionAssumption, TaskRunsAssumption
    <2> QED
      BY <1>9, <1>10, <2>1 DEF Publisher
  <1>16. PICK q \in Publisher : q = next
    BY <1>11
  <1>12. Knows(q)'
    <2>1. outbox' = outbox
      BY <1>1 DEF taskVars
    <2>2. q.pc = "publish" /\ q.at = 1 /\ q.batch = picked
      BY <1>10, <1>16
    <2>3. Len(q.batch) \in 1..BatchSize /\ q.at \in 1..Len(q.batch)
      BY <1>3, <1>9, <2>2, TaskProjectionAssumption
    <2>4. \A k \in 1..Len(q.batch) :
            q.batch[k].row \in 1..Len(outbox) /\ q.batch[k].outcome # "published"
      BY <1>9, <2>2
    <2> QED
      BY <2>1, <2>2, <2>3, <2>4, TaskProjectionAssumption DEF Knows
  <1>13. /\ publisher' \in [Publishers -> Publisher]
         /\ \A v \in Publishers : publisher'[v] = IF v = w THEN q ELSE publisher[v]
    BY <1>1, <1>7, <1>16 DEF ProjectionTypes
  <1>14. \A v \in Publishers : publisher'[v] = publisher[v] \/ Knows(publisher[v])'
    BY <1>12, <1>13 DEF Knows
  <1>15. ProjectionTypes'
    BY <1>1, <1>6, <1>13 DEF ProjectionTypes
  <1> QED
    BY <1>1, <1>6, <1>14, <1>15, ProjectionFrame

\* The entry a worker is at.
LEMMA EntryAtHand ==
    ASSUME ProjectionInv, NEW w \in Publishers, publisher[w].pc # "idle"
    PROVE  LET p == publisher[w]
               row == EntryOf(w).row
           IN  /\ p \in Publisher /\ Knows(p)
               /\ p.at \in 1..Len(p.batch) /\ p.at \in Nat /\ Len(p.batch) \in 1..BatchSize
               /\ p.batch \in Seq(Entry) /\ EntryOf(w) \in Entry
               /\ row \in 1..Len(outbox) /\ row \in OutboxRows
               /\ outbox[row] = <<TaskOf(w), VersionOf(w)>>
               /\ TaskOf(w) \in Tasks /\ VersionOf(w) \in Versions
               /\ task[TaskOf(w)].version \in VersionOf(w)..MaxVersion
  <1> DEFINE p == publisher[w]
             row == EntryOf(w).row
  <1>1. p \in Publisher /\ Knows(p) /\ OutboxTells /\ TasksTypeOK
    BY DEF ProjectionInv, ProjectionTypes, TasksIInv
  <1>2. p.batch \in Seq(Entry) /\ Len(p.batch) \in Nat
    BY <1>1 DEF Publisher
  <1>3. p.at \in 1..Len(p.batch) /\ p.at \in Nat /\ Len(p.batch) \in 1..BatchSize
    <2>1. p.at \in 1..Len(p.batch) /\ Len(p.batch) <= BatchSize
      BY <1>1, Zenon DEF Knows
    <2> HIDE DEF p
    <2> QED
      BY <1>2, <2>1, TaskProjectionAssumption
  <1>4. EntryOf(w) = p.batch[p.at] /\ EntryOf(w) \in Entry /\ row \in 1..Len(outbox)
    <2>1. EntryOf(w) = p.batch[p.at]
      BY DEF EntryOf
    <2>2. p.batch[p.at].row \in 1..Len(outbox)
      BY <1>1, <1>3, Zenon DEF Knows
    <2>3. p.batch[p.at] \in Entry
      <3> HIDE DEF p
      <3> QED
        BY <1>2, <1>3
    <2> QED
      BY <2>1, <2>2, <2>3, Zenon
  <1>5. /\ row \in OutboxRows /\ outbox[row] = <<TaskOf(w), VersionOf(w)>>
        /\ TaskOf(w) \in Tasks /\ VersionOf(w) \in 1..MaxVersion
    BY <1>1, <1>4, RowsFit DEF TaskOf, VersionOf
  <1>6. VersionOf(w) <= task[TaskOf(w)].version
    BY <1>1, <1>4 DEF OutboxTells, TaskOf, VersionOf
  <1>7. task[TaskOf(w)].version \in 0..MaxVersion
    BY <1>1, <1>5, TaskRunsAssumption DEF TasksTypeOK, Task, NoTask
  <1> QED
    BY <1>1, <1>2, <1>3, <1>4, <1>5, <1>6, <1>7 DEF Versions

\* A worker notes the outcome of an entry: published only what is done.
LEMMA PublishesKeeps ==
    ASSUME ProjectionInv, UNCHANGED <<taskVars, baseline, delivery, faults>>,
           accepted \subseteq accepted', linked \subseteq linked',
           accepted' \subseteq Tasks \X Versions, linked' \subseteq Tasks,
           NEW w \in Publishers, publisher[w].pc # "idle",
           NEW outcome \in {"published", "retryable", "permanent"}, Publishes(w, outcome),
           NEW row, row = EntryOf(w).row, outcome = "published" => RowDone(row)'
    PROVE  ProjectionInv'
  <1>11. PICK p : p = publisher[w]
    OBVIOUS
  <1> DEFINE n == Len(p.batch)
             noted == [p.batch[p.at] EXCEPT !.outcome = outcome]
             picked == [p.batch EXCEPT ![p.at] = noted]
             pc == IF p.at = n THEN "settle" ELSE "publish"
             at == IF p.at = n THEN 1 ELSE p.at + 1
             next == [p EXCEPT !.batch = picked, !.pc = pc, !.at = at, !.snapshot = 0]
  <1>1. /\ p \in Publisher /\ Knows(p) /\ p.at \in 1..n /\ p.at \in Nat /\ n \in 1..BatchSize
        /\ p.batch \in Seq(Entry) /\ p.batch[p.at] = EntryOf(w) /\ EntryOf(w) \in Entry
        /\ EntryOf(w).row \in 1..Len(outbox)
    BY <1>11, EntryAtHand DEF EntryOf
  <1>2. publisher' = [publisher EXCEPT ![w] = next]
    <2>1. [p.batch EXCEPT ![p.at].outcome = outcome] = picked
      BY Zenon
    <2> QED
      BY <1>11, <2>1, Zenon DEF Publishes
  <1>3. noted \in Entry /\ noted.row = EntryOf(w).row /\ noted.outcome = outcome
    BY <1>1 DEF Entry, Outcomes
  <1>12. PICK e : e = noted
    OBVIOUS
  <1>4. /\ picked \in Seq(Entry) /\ Len(picked) = n /\ picked[p.at] = e
        /\ \A k \in 1..n : k # p.at => picked[k] = p.batch[k]
    BY <1>1, <1>3, <1>12
  <1>13. PICK b : b = picked
    OBVIOUS
  <1>5. /\ at \in 1..n /\ at \in 0..BatchSize + 1 /\ 0 \in 0..MaxVersion
        /\ pc \in {"settle", "publish"}
    BY <1>1, TaskProjectionAssumption, TaskRunsAssumption
  <1>14. PICK q : q = next
    OBVIOUS
  <1>6. q.pc \in {"settle", "publish"} /\ q.at \in 1..n /\ q.batch = b /\ q \in Publisher
    <2>1. /\ q = [pc |-> pc, batch |-> b, at |-> at, snapshot |-> 0]
      BY <1>1, <1>13, <1>14 DEF Publisher
    <2> HIDE DEF pc, at, next
    <2> QED
      BY <1>4, <1>5, <1>13, <2>1 DEF Publisher
  <1>15. Len(b) = n /\ b[p.at] = e /\ \A k \in 1..n : k # p.at => b[k] = p.batch[k]
    BY <1>4, <1>13
  <1>16. e.row \in 1..Len(outbox) /\ (e.outcome = "published" => RowDone(e.row)')
    <2>1. e.row = EntryOf(w).row /\ e.outcome = outcome
      BY <1>3, <1>12
    <2> QED
      BY <1>1, <2>1 DEF RowDone
  <1> HIDE DEF noted, picked, next, pc, at
  <1>7. outbox' = outbox /\ TasksTypeOK /\ OutboxTells /\ Grown
    BY OutboxStays DEF taskVars, ProjectionInv, TasksIInv
  <1>8. ASSUME NEW k \in 1..n
        PROVE  /\ b[k].row \in 1..Len(outbox)
               /\ b[k].outcome = "published" => RowDone(b[k].row)'
    <2>1. CASE k = p.at
      BY <1>15, <1>16, <2>1
    <2>2. CASE k # p.at
      <3>1. b[k] = p.batch[k]
        BY <1>15, <2>2
      <3>2. /\ p.batch[k].row \in 1..Len(outbox)
            /\ p.batch[k].outcome = "published" => RowDone(p.batch[k].row)
        BY <1>1 DEF Knows
      <3>3. PICK i : i = p.batch[k].row
        OBVIOUS
      <3>4. b[k].outcome = "published" => RowDone(i)'
        BY <1>7, <3>1, <3>2, <3>3, DoneStays
      <3> QED
        BY <3>1, <3>2, <3>3, <3>4 DEF RowDone
    <2> QED
      BY <2>1, <2>2
  <1>9. Knows(q)'
    BY <1>1, <1>6, <1>7, <1>8, <1>15 DEF Knows
  <1>10. faults' \in 0..MaxFaults
    BY DEF ProjectionInv, ProjectionTypes
  <1> QED
    BY <1>2, <1>6, <1>9, <1>10, <1>14, PublisherMoves

LEMMA ReadTaskKeeps ==
    ASSUME ProjectionInv, NEW w \in Publishers, ReadTask(w)
    PROVE  ProjectionInv'
  <1>1. /\ UNCHANGED <<taskVars, baseline, delivery, linked, accepted, faults>>
        /\ publisher[w].pc = "publish" /\ UNCHANGED <<task, outbox>>
    BY DEF ReadTask, taskVars
  <1>2. PICK p : p = publisher[w]
    OBVIOUS
  <1>3. PICK row : row = EntryOf(w).row
    OBVIOUS
  <1>4. /\ p \in Publisher /\ Knows(p) /\ p.batch[p.at].row = row
        /\ row \in 1..Len(outbox) /\ outbox[row] = <<TaskOf(w), VersionOf(w)>>
        /\ VersionOf(w) \in 1..MaxVersion
        /\ task[TaskOf(w)].version \in VersionOf(w)..MaxVersion
    BY <1>1, <1>2, <1>3, EntryAtHand DEF EntryOf, Versions
  <1>5. accepted' \subseteq Tasks \X Versions /\ linked' \subseteq Tasks /\ faults' \in 0..MaxFaults
        /\ accepted \subseteq accepted' /\ linked \subseteq linked'
    BY <1>1 DEF ProjectionInv, ProjectionTypes
  <1>6. CASE Superseded(w)
    <2>1. RowDone(row)'
      BY <1>1, <1>4, <1>6 DEF Superseded, RowDone
    <2>2. Publishes(w, "published")
      BY <1>6 DEF ReadTask
    <2> QED
      BY <1>1, <1>3, <1>5, <2>1, <2>2, PublishesKeeps
  <1>7. CASE ~Superseded(w)
    <2> DEFINE next == [p EXCEPT !.pc = "resolve", !.snapshot = task[TaskOf(w)].version]
    <2>1. publisher' = [publisher EXCEPT ![w] = next]
      BY <1>2, <1>7, Zenon DEF ReadTask
    <2>2. PICK q : q = next
      OBVIOUS
    <2>3. task[TaskOf(w)].version \in 0..MaxVersion
      BY <1>4, TaskRunsAssumption
    <2>4. /\ q \in Publisher /\ q.pc = "resolve" /\ q.at = p.at /\ q.batch = p.batch
          /\ q.snapshot = task[TaskOf(w)].version
      BY <1>4, <2>2, <2>3 DEF Publisher
    <2> HIDE DEF next
    <2>5. outbox[row][2] <= q.snapshot /\ q.snapshot <= task[outbox[row][1]].version
      BY <1>4, <2>4
    <2>6. Knows(q)
      BY <1>1, <1>2, <1>4, <2>4, <2>5 DEF Knows
    <2>7. Knows(q)'
      BY <1>1, <2>6 DEF Knows, RowDone
    <2> QED
      BY <1>1, <1>5, <2>1, <2>2, <2>4, <2>7, PublisherMoves
  <1> QED
    BY <1>6, <1>7

LEMMA CalledKeeps ==
    ASSUME ProjectionInv, NEW w \in Publishers, Call(w)
    PROVE  ProjectionInv'
  <1>1. /\ UNCHANGED <<taskVars, baseline, delivery, linked, accepted, faults>>
        /\ publisher[w].pc = "resolve" /\ UNCHANGED <<task, outbox>>
    BY DEF Call, taskVars
  <1>2. PICK p : p = publisher[w]
    OBVIOUS
  <1>3. p \in Publisher /\ Knows(p)
    BY <1>1, <1>2, EntryAtHand
  <1> DEFINE next == [p EXCEPT !.pc = "call"]
  <1>4. publisher' = [publisher EXCEPT ![w] = next]
    BY <1>2, Zenon DEF Call
  <1>5. PICK q : q = next
    OBVIOUS
  <1>6. /\ q \in Publisher /\ q.pc = "call" /\ q.at = p.at /\ q.batch = p.batch
        /\ q.snapshot = p.snapshot
    BY <1>3, <1>5 DEF Publisher
  <1> HIDE DEF next
  <1>7. Knows(q)
    BY <1>1, <1>2, <1>3, <1>6 DEF Knows
  <1>8. Knows(q)'
    BY <1>1, <1>7 DEF Knows, RowDone
  <1>9. accepted' \subseteq Tasks \X Versions /\ linked' \subseteq Tasks /\ faults' \in 0..MaxFaults
        /\ accepted \subseteq accepted' /\ linked \subseteq linked'
    BY <1>1 DEF ProjectionInv, ProjectionTypes
  <1> QED
    BY <1>1, <1>4, <1>5, <1>6, <1>8, <1>9, PublisherMoves

\* A call that is answered makes the row done: the snapshot is of its version, or of a later one.
LEMMA CallEndsKeeps ==
    ASSUME ProjectionInv, NEW w \in Publishers, NoTarget(w) \/ Answered(w) \/ Unanswered(w)
    PROVE  ProjectionInv'
  <1>1. /\ UNCHANGED <<taskVars, baseline, delivery, faults>>
        /\ publisher[w].pc \in {"resolve", "call"}
    BY DEF NoTarget, Answered, Unanswered
  <1>2. UNCHANGED <<task, outbox>>
    BY <1>1 DEF taskVars
  <1>3. PICK row : row = EntryOf(w).row
    OBVIOUS
  <1>4. /\ publisher[w] \in Publisher /\ Knows(publisher[w])
        /\ row \in 1..Len(outbox) /\ outbox[row] = <<TaskOf(w), VersionOf(w)>>
        /\ VersionOf(w) \in 1..MaxVersion /\ TaskOf(w) \in Tasks
        /\ task[TaskOf(w)].version \in VersionOf(w)..MaxVersion
    BY <1>1, <1>3, EntryAtHand DEF Versions
  <1>5. accepted \subseteq Tasks \X Versions /\ linked \subseteq Tasks
    BY DEF ProjectionInv, ProjectionTypes
  <1>6. CASE NoTarget(w) \/ Unanswered(w)
    <2>1. UNCHANGED <<accepted, linked>>
      BY <1>6 DEF NoTarget, Unanswered
    <2>2. Publishes(w, "retryable") \/ Publishes(w, "permanent")
      BY <1>6 DEF NoTarget, Unanswered
    <2> QED
      BY <1>1, <1>3, <1>5, <2>1, <2>2, PublishesKeeps
  <1>7. CASE Answered(w)
    <2>1. /\ accepted' = accepted \cup {<<TaskOf(w), publisher[w].snapshot>>}
          /\ linked' = linked \cup {TaskOf(w)} /\ Publishes(w, "published")
      BY <1>7 DEF Answered
    <2>2. /\ VersionOf(w) <= publisher[w].snapshot
          /\ publisher[w].snapshot <= task[TaskOf(w)].version
          /\ publisher[w].snapshot \in Nat
      <3>1. publisher[w].batch[publisher[w].at].row = row
        BY <1>3 DEF EntryOf
      <3>2. /\ outbox[row][2] <= publisher[w].snapshot
            /\ publisher[w].snapshot <= task[outbox[row][1]].version
        BY <1>1, <1>4, <3>1 DEF Knows
      <3>3. publisher[w].snapshot \in Nat
        BY <1>4, TaskRunsAssumption DEF Publisher
      <3> QED
        BY <1>4, <3>2, <3>3
    <2>3. publisher[w].snapshot \in Versions
      BY <1>4, <2>2, TaskRunsAssumption DEF Versions
    <2>4. accepted' \subseteq Tasks \X Versions /\ linked' \subseteq Tasks
          /\ accepted \subseteq accepted' /\ linked \subseteq linked'
      BY <1>4, <1>5, <2>1, <2>3
    <2>5. RowDone(row)'
      <3>1. CASE VersionOf(w) < task[TaskOf(w)].version
        BY <1>2, <1>4, <3>1 DEF RowDone
      <3>2. CASE VersionOf(w) = publisher[w].snapshot
        <4>1. outbox[row] \in accepted' /\ outbox[row][1] \in linked'
          BY <1>4, <2>1, <3>2
        <4> QED
          BY <1>2, <4>1 DEF RowDone
      <3> QED
        BY <1>4, <2>2, <3>1, <3>2
    <2> QED
      BY <1>1, <1>3, <2>1, <2>4, <2>5, PublishesKeeps
  <1> QED
    BY <1>6, <1>7
LEMMA SettlesOn ==
    ASSUME ProjectionInv, UNCHANGED <<taskVars, accepted, linked>>,
           NEW w \in Publishers, publisher[w].pc = "settle", Settles(w)
    PROVE  /\ publisher' \in [Publishers -> Publisher]
           /\ \A v \in Publishers : publisher'[v] = publisher[v] \/ Knows(publisher[v])'
  <1>1. UNCHANGED <<task, outbox>> /\ publisher \in [Publishers -> Publisher]
    BY DEF taskVars, ProjectionInv, ProjectionTypes
  <1>2. PICK p : p = publisher[w]
    OBVIOUS
  <1>3. /\ p \in Publisher /\ Knows(p) /\ p.pc = "settle"
        /\ p.at \in 1..Len(p.batch) /\ p.at \in Nat /\ Len(p.batch) \in 1..BatchSize
    BY <1>2, EntryAtHand
  <1> DEFINE next == IF p.at = Len(p.batch) THEN Resting ELSE [p EXCEPT !.at = p.at + 1]
  <1>4. publisher' = [publisher EXCEPT ![w] = next]
    BY <1>2, Zenon DEF Settles
  <1>5. PICK q : q = next
    OBVIOUS
  <1>6. q \in Publisher /\ Knows(q)'
    <2>1. CASE p.at = Len(p.batch)
      BY <1>5, <2>1, Rests
    <2>2. CASE p.at # Len(p.batch)
      <3>1. p.at + 1 \in 1..Len(p.batch) /\ p.at + 1 \in 0..BatchSize + 1
        BY <1>3, <2>2, TaskProjectionAssumption
      <3>2. /\ q \in Publisher /\ q.pc = "settle" /\ q.at = p.at + 1 /\ q.batch = p.batch
        BY <1>3, <1>5, <2>2, <3>1 DEF Publisher
      <3>3. Knows(q)
        BY <1>3, <3>1, <3>2 DEF Knows
      <3> QED
        BY <1>1, <3>2, <3>3 DEF Knows, RowDone
    <2> QED
      BY <2>1, <2>2
  <1> HIDE DEF next
  <1>7. /\ publisher' \in [Publishers -> Publisher]
        /\ \A v \in Publishers : publisher'[v] = IF v = w THEN q ELSE publisher[v]
    BY <1>1, <1>4, <1>5, <1>6
  <1> QED
    BY <1>6, <1>7 DEF Knows

LEMMA SettlementKeeps ==
    ASSUME ProjectionInv, NEW w \in Publishers, Settle(w)
    PROVE  ProjectionInv'
  <1> DEFINE entry == EntryOf(w)
             d == delivery[entry.row]
  <1>1. /\ UNCHANGED <<taskVars, baseline, linked, accepted, faults>>
        /\ publisher[w].pc = "settle" /\ Settles(w)
    BY DEF Settle
  <1>2. /\ publisher[w].batch[publisher[w].at] = entry
        /\ publisher[w].at \in 1..Len(publisher[w].batch)
        /\ Knows(publisher[w])
        /\ entry.row \in 1..Len(outbox) /\ entry.row \in OutboxRows
    BY <1>1, EntryAtHand DEF EntryOf
  <1>3. entry.outcome = "published" => RowDone(entry.row)
    BY <1>2 DEF Knows
  <1>4. d \in Delivery /\ d.version + 1 \in Nat /\ faults' \in 0..MaxFaults /\ ProjectionTypes
    <2>1. ProjectionTypes /\ faults' = faults
      BY <1>1 DEF ProjectionInv
    <2>2. d \in Delivery /\ faults' \in 0..MaxFaults
      BY <1>2, <2>1 DEF ProjectionTypes
    <2> QED
      BY <2>1, <2>2 DEF Delivery
  <1>5. /\ publisher' \in [Publishers -> Publisher]
        /\ \A v \in Publishers : publisher'[v] = publisher[v] \/ Knows(publisher[v])'
    BY <1>1, SettlesOn
  <1>6. ASSUME NEW status \in {"acknowledged", "dead_letter", "retry_wait"}, NEW waits \in BOOLEAN,
               delivery' = Settled(entry, status, waits),
               status = "acknowledged" => RowDone(entry.row)
        PROVE  ProjectionInv'
    <2> DEFINE row == [d EXCEPT !.status = status, !.version = d.version + 1,
                                !.worker = "none", !.waits = waits]
    <2>1. delivery' = [delivery EXCEPT ![entry.row] = row]
      BY <1>6, Zenon DEF Settled
    <2>2. row \in Delivery /\ row.status = status
      BY <1>4 DEF Delivery
    <2> HIDE DEF row
    <2> QED
      BY <1>1, <1>2, <1>4, <1>5, <1>6, <2>1, <2>2, DeliveryChanges
  <1>7. CASE ~OwnsLease(w, entry)
    <2>1. delivery' = delivery
      BY <1>7 DEF Settle
    <2>2. ProjectionTypes'
      BY <1>1, <1>4, <1>5, <2>1 DEF ProjectionTypes
    <2> QED
      BY <1>1, <1>5, <2>1, <2>2, ProjectionFrame
  <1>8. CASE OwnsLease(w, entry) /\ entry.outcome = "published"
    <2>1. delivery' = Settled(entry, "acknowledged", FALSE)
      BY <1>8 DEF Settle
    <2> QED
      BY <1>3, <1>6, <1>8, <2>1
  <1>9. CASE OwnsLease(w, entry) /\ entry.outcome # "published"
    <2>1. delivery' = Settled(entry, Failed(entry), Failed(entry) = "retry_wait")
      BY <1>9 DEF Settle
    <2>2. Failed(entry) \in {"dead_letter", "retry_wait"}
      BY DEF Failed
    <2>3. (Failed(entry) = "retry_wait") \in BOOLEAN
      OBVIOUS
    <2> QED
      BY <1>6, <2>1, <2>2, <2>3
  <1> QED
    BY <1>7, <1>8, <1>9

LEMMA MishapKeeps ==
    ASSUME ProjectionInv, NEW w \in Publishers, SettlementFails(w) \/ Crash(w)
    PROVE  ProjectionInv'
  <1>1. /\ UNCHANGED <<taskVars, baseline, delivery, linked, accepted>>
        /\ faults < MaxFaults /\ faults' = faults + 1
    BY DEF SettlementFails, Crash
  <1>2. ProjectionTypes /\ faults' \in 0..MaxFaults
    BY <1>1, TaskProjectionAssumption DEF ProjectionInv, ProjectionTypes
  <1>3. CASE SettlementFails(w)
    <2>1. /\ publisher' \in [Publishers -> Publisher]
          /\ \A v \in Publishers : publisher'[v] = publisher[v] \/ Knows(publisher[v])'
      BY <1>1, <1>3, SettlesOn DEF SettlementFails
    <2>2. ProjectionTypes'
      BY <1>1, <1>2, <2>1 DEF ProjectionTypes
    <2> QED
      BY <1>1, <2>1, <2>2, ProjectionFrame
  <1>4. CASE Crash(w)
    <2>1. publisher' = [publisher EXCEPT ![w] = Resting]
      BY <1>4 DEF Crash
    <2>2. PICK q \in Publisher : q = Resting /\ Knows(q)'
      BY Rests DEF Knows
    <2>3. accepted' \subseteq Tasks \X Versions /\ linked' \subseteq Tasks
          /\ accepted \subseteq accepted' /\ linked \subseteq linked'
      BY <1>1, <1>2 DEF ProjectionTypes
    <2> QED
      BY <1>1, <1>2, <2>1, <2>2, <2>3, PublisherMoves
  <1> QED
    BY <1>3, <1>4

LEMMA ProjectionKeeps == ProjectionInv /\ [ProjectionNext]_boardVars => ProjectionInv'
  <1> SUFFICES ASSUME ProjectionInv, [ProjectionNext]_boardVars PROVE ProjectionInv'
    OBVIOUS
  <1>1. ASSUME NEW w \in Publishers,
               Work(w) \/ NoTarget(w) \/ SettlementFails(w) \/ Crash(w)
        PROVE  ProjectionInv'
    BY <1>1, ClaimBatchKeeps, ReadTaskKeeps, CalledKeeps, CallEndsKeeps, SettlementKeeps,
       MishapKeeps DEF Work
  <1> QED
    BY <1>1, TaskMovesKeep, RegisterKeeps, OperatorKeeps DEF ProjectionNext

LEMMA ProjectionStarts == ProjectionInit => ProjectionInv
  <1> SUFFICES ASSUME ProjectionInit PROVE ProjectionInv
    OBVIOUS
  <1>1. TasksIInv /\ TasksTypeOK
    BY InitTasks DEF ProjectionInit, TasksIInv
  <1>2. OutboxTells
    <2>1. Len(outbox) = 0 /\ \A t \in Tasks : task[t] = NoTask
      BY DEF ProjectionInit, TasksInit
    <2> QED
      BY <2>1 DEF OutboxTells
  <1>3. Pending \in Delivery /\ Pending.status = "pending"
    BY TaskProjectionAssumption DEF Pending, Delivery
  <1>4. ProjectionTypes
    BY <1>3, Rests, TaskProjectionAssumption DEF ProjectionInit, ProjectionTypes
  <1>5. AckedAreDone
    BY <1>3 DEF ProjectionInit, AckedAreDone
  <1>6. \A w \in Publishers : Knows(publisher[w])
    BY Rests DEF ProjectionInit
  <1> QED
    BY <1>1, <1>2, <1>4, <1>5, <1>6 DEF ProjectionInv

LEMMA ProjectionSays == ProjectionInv => ProjectionTypeOK /\ NewestWasPublished
  <1> SUFFICES ASSUME ProjectionInv PROVE ProjectionTypeOK /\ NewestWasPublished
    OBVIOUS
  <1>1. ProjectionTypeOK
    BY DEF ProjectionInv, ProjectionTypes, ProjectionTypeOK, TasksIInv
  <1>2. ASSUME NEW t \in Tasks, task[t] # NoTask, delivery[RowOf(t)].status = "acknowledged"
        PROVE  <<t, task[t].version>> \in accepted /\ t \in linked
    <2>1. OutboxTells /\ TasksTypeOK /\ AckedAreDone /\ DOMAIN outbox = 1..Len(outbox)
      BY DEF ProjectionInv, TasksIInv, TasksTypeOK
    <2>2. RowOf(t) \in 1..Len(outbox) /\ outbox[RowOf(t)] = <<t, task[t].version>>
      BY <1>2, <2>1 DEF RowOf, OutboxTells
    <2>3. RowOf(t) \in OutboxRows
      BY <2>1, <2>2, RowsFit
    <2>4. RowDone(RowOf(t))
      BY <1>2, <2>1, <2>3 DEF AckedAreDone
    <2>5. task[t].version \in Nat
      BY TaskRow, <2>1 DEF TasksTypeOK
    <2> QED
      BY <2>2, <2>4, <2>5 DEF RowDone
  <1> QED
    BY <1>1, <1>2 DEF NewestWasPublished

-----------------------------------------------------------------------------
(* The exchange *)

LEMMA OnePartAtATime ==
    ASSUME [Next]_vars
    PROVE  /\ [IntakeNext]_intakeVars /\ [SubscriptionNext]_subscriptionVars
           /\ [StreamNext]_streamVars /\ [ProjectionNext]_boardVars
  BY DEF Next, vars

\* The inductive invariant of the composition: that of each part, since a step runs one of them.
IInv == ProjectionInv /\ IntakeInv /\ FurtherInv /\ SubInv /\ StreamInv /\ TroublesOK

LEMMA Invariance == Spec => []IInv
  <1>1. Init => IInv
    BY ProjectionStarts, IntakeStarts, FurtherStarts, SubscriptionStarts, StreamStarts DEF Init, IInv
  <1>2. IInv /\ [Next]_vars => IInv'
    <2> SUFFICES ASSUME IInv, [Next]_vars PROVE IInv'
      OBVIOUS
    <2> QED
      BY OnePartAtATime, ProjectionKeeps, IntakeKeeps, FurtherKeeps, SubscriptionKeeps, StreamKeeps
      DEF IInv
  <1> QED
    BY <1>1, <1>2, PTL DEF Spec

\* Every table, process and counter of the four queues is well typed.
THEOREM ExchangeTypeCorrect == Spec => []TypeOK
  <1>1. IInv => TypeOK
    BY ProjectionSays, IntakeSays, SubInvSays, StreamTyped DEF IInv, TypeOK
  <1> QED
    BY <1>1, Invariance, PTL

\* Once the delivery of a task's newest version is acknowledged, the remote system has answered a
\* call with that very snapshot and the task is linked (feishu-task-projection.js:118, 151).
THEOREM NewestIsPublished == Spec => []NewestWasPublished
  <1>1. IInv => NewestWasPublished
    BY ProjectionSays DEF IInv
  <1> QED
    BY <1>1, Invariance, PTL

\* Whoever is told of the events of a request hears of them in their order
\* (event-subscription.js:553-600, assistant-response-stream.js:2464-2482).
THEOREM EventsReachInOrder == Spec => []EventsInOrder
  <1>1. IInv => EventsInOrder
    BY SubInvSays DEF IInv, StreamInv, EventsInOrder
  <1> QED
    BY <1>1, Invariance, PTL

\* A message has one fate and one task, and what its sender and the operator are told of it is
\* so, however often it, its card and its intake are delivered; it is given to the agent at most
\* once, or, if it is an ordinary one without a response stream, once for each row that a
\* redelivery added (c4-receive.js:746-749,777-822, c4-db.js:1599-1645,
\* c4-work-intake-confirmations.js:397-401,418-432,464-468).
THEOREM MessagesHaveOneFate == Spec => []IntakeKeepsItsWord
  <1>1. IInv => IntakeKeepsItsWord
    BY IntakeSays DEF IInv, IntakeKeepsItsWord
  <1> QED
    BY <1>1, Invariance, PTL
=============================================================================

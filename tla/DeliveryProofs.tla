--------------------------- MODULE DeliveryProofs ---------------------------
(***************************************************************************)
(* Proofs about Config and Delivery, for every set of settings, every      *)
(* number of reports and of key rotations.                                 *)
(*                                                                         *)
(* The argument for the delivery: a body that leaves the agent is          *)
(* compressed, or compressed and then encrypted for some version of the    *)
(* pair; behind DecryptMiddleware only the compression is left exactly     *)
(* when both sides agreed; so the handler sees the JSON text, and its      *)
(* answer depends on the hash keys, as far as it compares them.  A batch   *)
(* is not in the storage before it is answered, as reports only go up.     *)
(***************************************************************************)
EXTENDS Delivery, SequenceTheorems, TLAPS

\* The two passes over flags, file and environment that GetAgentConfig makes
\* amount to the environment, then a flag that is not the default, then the
\* file; an empty result is replaced by the default (agent/flags.go:99).
THEOREM TwoPassesArePriority ==
    ASSUME NEW s, NEW default, NEW empty
    PROVE  AgentSetting(s, default, empty) = AgentPriority(s, default, empty)
  BY DEF AgentSetting, Merged, Parsed, AgentPriority

-----------------------------------------------------------------------------
(* The delivery.                                                           *)

Batches == {"gauge", "counter"}

Compressed(b) == b = <<Gzip>>
Encrypted(b)  == \E v \in Nat \ {0} : b = <<Gzip, Rsa(v)>>

\* What is stored is of this report or an earlier one, and the counters of a
\* report come after its gauges.
StoredInOrder ==
    /\ stored \subseteq Batches \X (1 .. report)
    /\ kind = "gauge" => <<"counter", report>> \notin stored
    /\ stage \in {"agent", "decrypt", "unzip", "handler"} => <<kind, report>> \notin stored

\* Where a body is and what is around it.
BodyInv ==
    /\ stage \in {"decrypt", "unzip", "handler"} => hash = HashOf(<<>>)
    /\ stage = "decrypt" => Compressed(body) \/ Encrypted(body)
    /\ stage = "unzip" => IF agreed THEN Compressed(body) ELSE Encrypted(body)
    /\ stage = "handler" => agreed /\ body = <<>>

CountersInv ==
    /\ pair \in Nat \ {0} /\ private \in Nat /\ report \in Nat \ {0}
    /\ kind \in Batches /\ DOMAIN status = Batches

DeliveryInv ==
    /\ CountersInv /\ BodyInv /\ StoredInOrder
    /\ AgreeingSidesDeliver /\ SeenMismatchRejects

\* The layers, taken off one by one.
LEMMA Layers ==
    ASSUME NEW v \in Nat
    PROVE  /\ Last(<<Gzip>>) = Gzip /\ Front(<<Gzip>>) = <<>>
           /\ Last(<<Gzip, Rsa(v)>>) = Rsa(v) /\ Front(<<Gzip, Rsa(v)>>) = <<Gzip>>
           /\ Len(<<Gzip>>) = 1 /\ Len(<<Gzip, Rsa(v)>>) = 2
           /\ Rsa(v) # Gzip
  <1>1. Last(<<Gzip>>) = Gzip /\ Last(<<Gzip, Rsa(v)>>) = Rsa(v)
    BY DEF Last
  <1>2. Front(<<Gzip>>) = <<>>
    BY DEF Front
  <1>3. Front(<<Gzip, Rsa(v)>>) = <<Gzip>>
    <2> DEFINE both == <<Gzip, Rsa(v)>>
    <2>1. both \in Seq(Nat) /\ <<Gzip>> \in Seq(Nat) /\ Len(both) = 2
      BY DEF Rsa, Gzip
    <2>2. \A i \in 1 .. 1 : both[i] \in Nat
      BY DEF Gzip
    <2>3. /\ SubSeq(both, 1, 1) \in Seq(Nat) /\ Len(SubSeq(both, 1, 1)) = 1
          /\ SubSeq(both, 1, 1)[1] = both[1]
      <3> HIDE DEF both
      <3> QED BY <2>2, SubSeqProperties
    <2>4. SubSeq(both, 1, 1) = <<Gzip>>
      <3>1. Len(<<Gzip>>) = 1 /\ <<Gzip>>[1] = both[1]
        OBVIOUS
      <3> HIDE DEF both
      <3>2. \A i \in 1 .. 1 : SubSeq(both, 1, 1)[i] = <<Gzip>>[i]
        BY <2>3, <3>1
      <3> QED BY <2>1, <2>3, <3>1, <3>2, SeqEqual
    <2> QED BY <2>1, <2>4 DEF Front
  <1>4. Rsa(v) # Gzip
    BY DEF Rsa, Gzip
  <1> QED BY <1>1, <1>2, <1>3, <1>4

\* The handler has nothing against the agent's hash key.
HashPasses == Compared => AgentKey = ServerKey

\* Its check of the header comes to that.
LEMMA HashDecides ==
    ASSUME hash = HashOf(<<>>), body = <<>>
    PROVE  HashRight <=> HashPasses
  BY DEF HashRight, HashOf, HashPasses, Compared, Empty

LEMMA DeliveryInvInit == Init => DeliveryInv
  <1> SUFFICES ASSUME Init PROVE DeliveryInv
    OBVIOUS
  <1>1. CountersInv
    BY DEF Init, CountersInv, Loaded, NotSent, Batches
  <1>2. BodyInv
    BY DEF Init, BodyInv
  <1>3. StoredInOrder
    BY DEF Init, StoredInOrder
  <1>4. AgreeingSidesDeliver /\ SeenMismatchRejects
    BY DEF Init, AgreeingSidesDeliver, SeenMismatchRejects, Delivered
  <1> QED BY <1>1, <1>2, <1>3, <1>4 DEF DeliveryInv

LEMMA DeliveryInvNext == DeliveryInv /\ [Next]_deliveryVars => DeliveryInv'
  <1> SUFFICES ASSUME DeliveryInv, [Next]_deliveryVars PROVE DeliveryInv'
    OBVIOUS
  <1> USE DEF DeliveryInv
  <1>1. CASE Build
    <2>1. UNCHANGED <<setting, database, pair, private, polled, kind, report, status, agreed, stored>>
      BY <1>1 DEF Build
    <2>2. /\ stage = "agent" /\ stage' = "decrypt"
          /\ body' = <<Gzip>> \/ body' = <<Gzip, Rsa(pair)>>
          /\ hash' = HashOf(<<>>)'
      BY <1>1 DEF Build, HashOf, AgentKey
    <2>3. CountersInv'
      BY <2>1 DEF CountersInv
    <2>4. BodyInv'
      BY <2>1, <2>2 DEF BodyInv, CountersInv, Compressed, Encrypted
    <2>5. StoredInOrder'
      BY <2>1, <2>2 DEF StoredInOrder
    <2>6. AgreeingSidesDeliver' /\ SeenMismatchRejects'
      BY <2>2 DEF AgreeingSidesDeliver, SeenMismatchRejects, Delivered, HashPasses
    <2> QED BY <2>3, <2>4, <2>5, <2>6
  <1>2. CASE EncryptFails
    <2>1. /\ UNCHANGED <<setting, database, pair, private, polled, kind, report, agreed, stored>>
          /\ stage = "agent" /\ stage' = "answered"
          /\ status' = [status EXCEPT ![kind] = 0]
      BY <1>2 DEF EncryptFails
    <2>2. CountersInv' /\ status'[kind'] = 0
      BY <2>1 DEF CountersInv
    <2>3. BodyInv' /\ StoredInOrder'
      BY <2>1 DEF BodyInv, StoredInOrder
    <2>4. AgreeingSidesDeliver' /\ SeenMismatchRejects'
      BY <2>1, <2>2 DEF AgreeingSidesDeliver, SeenMismatchRejects, Delivered, HashPasses, StoredInOrder
    <2> QED BY <2>2, <2>3, <2>4
  <1>9. CASE Poll
    <2>1. /\ UNCHANGED <<setting, database, pair, private, stage, kind, report, body, hash,
                         status, agreed, stored>>
          /\ HashOf(<<>>)' = HashOf(<<>>) /\ HashPasses' = HashPasses
      BY <1>9 DEF Poll, HashOf, HashPasses, Compared, AgentKey, ServerKey
    <2>2. CountersInv' /\ BodyInv' /\ StoredInOrder'
      BY <2>1 DEF CountersInv, BodyInv, StoredInOrder
    <2>3. AgreeingSidesDeliver' /\ SeenMismatchRejects'
      BY <2>1 DEF AgreeingSidesDeliver, SeenMismatchRejects, Delivered, HashPasses
    <2> QED BY <2>2, <2>3
  <1>10. CASE NothingToSend
    <2>1. /\ UNCHANGED <<setting, database, pair, private, kind, report, agreed, stored>>
          /\ stage = "agent" /\ stage' = "answered"
          /\ status' = [status EXCEPT ![kind] = Nothing]
      BY <1>10 DEF NothingToSend
    <2>2. CountersInv' /\ status'[kind'] = Nothing
      BY <2>1 DEF CountersInv
    <2>3. BodyInv' /\ StoredInOrder'
      BY <2>1 DEF BodyInv, StoredInOrder
    <2>4. AgreeingSidesDeliver' /\ SeenMismatchRejects'
      BY <2>1, <2>2 DEF AgreeingSidesDeliver, SeenMismatchRejects, Delivered
    <2> QED BY <2>2, <2>3, <2>4
  <1>3. CASE Receive
    <2>1. /\ UNCHANGED <<setting, database, pair, private, report, status, agreed, stored>>
          /\ \/ stage' = "agent" /\ kind' = "counter" /\ kind = "gauge"
             \/ stage' = "end" /\ kind' = kind
      BY <1>3 DEF Receive
    <2>2. CountersInv' /\ BodyInv' /\ StoredInOrder'
      BY <2>1 DEF CountersInv, Batches, BodyInv, StoredInOrder
    <2>3. AgreeingSidesDeliver' /\ SeenMismatchRejects'
      BY <2>1 DEF AgreeingSidesDeliver, SeenMismatchRejects, Delivered, HashPasses
    <2> QED BY <2>2, <2>3
  <1>4. CASE NextReport
    <2>1. /\ UNCHANGED <<setting, database, pair, private, agreed, stored>>
          /\ stage' = "agent" /\ kind' = "gauge" /\ report' = report + 1
          /\ status' = NotSent
      BY <1>4 DEF NextReport
    <2>2. CountersInv'
      BY <2>1 DEF CountersInv, Batches, NotSent
    <2>3. StoredInOrder'
      BY <2>1 DEF StoredInOrder, CountersInv, Batches
    <2>4. BodyInv' /\ AgreeingSidesDeliver' /\ SeenMismatchRejects'
      BY <2>1 DEF BodyInv, AgreeingSidesDeliver, SeenMismatchRejects, Delivered
    <2> QED BY <2>2, <2>3, <2>4
  <1>5. CASE Decrypt
    <2>1. /\ UNCHANGED <<setting, database, pair, private, polled, kind, report, hash, stored>>
          /\ stage = "decrypt" /\ agreed' = SameCrypto
          /\ hash' = HashOf(<<>>)'
      BY <1>5 DEF Decrypt, BodyInv, HashOf, AgentKey
    <2>2. CASE private = 0 \/ Last(body) = Rsa(private)
      <3>1. /\ body' = (IF private = 0 THEN body ELSE Front(body))
            /\ stage' = "unzip" /\ status' = status
        BY <1>5, <2>2 DEF Decrypt
      <3>2. IF agreed' THEN Compressed(body') ELSE Encrypted(body')
        <4>1. CASE Compressed(body)
          <5>1. private = 0
            BY <4>1, <2>2, Layers DEF Compressed, CountersInv
          <5>2. SameCrypto
            BY <4>1, <5>1, Layers DEF Compressed, SameCrypto
          <5> QED BY <2>1, <3>1, <4>1, <5>1, <5>2
        <4>2. CASE Encrypted(body)
          <5>1. PICK v \in Nat \ {0} : body = <<Gzip, Rsa(v)>>
            BY <4>2 DEF Encrypted
          <5>2. CASE private = 0
            <6>1. ~SameCrypto
              BY <5>1, <5>2, Layers DEF SameCrypto, Rsa
            <6> QED BY <2>1, <5>1, <5>2, <6>1, <3>1 DEF Encrypted
          <5>3. CASE private # 0
            BY <2>1, <2>2, <5>1, <5>3, <3>1, Layers DEF SameCrypto, Compressed
          <5> QED BY <5>2, <5>3
        <4> QED BY <2>1, <4>1, <4>2 DEF BodyInv
      <3>3. BodyInv'
        BY <2>1, <3>1, <3>2 DEF BodyInv
      <3>4. CountersInv' /\ StoredInOrder'
        BY <2>1, <3>1 DEF CountersInv, StoredInOrder
      <3>5. AgreeingSidesDeliver' /\ SeenMismatchRejects'
        BY <3>1 DEF AgreeingSidesDeliver, SeenMismatchRejects, Delivered, HashPasses
      <3> QED BY <3>3, <3>4, <3>5
    <2>3. CASE ~(private = 0 \/ Last(body) = Rsa(private))
      <3>1. /\ status' = [status EXCEPT ![kind] = 400] /\ stage' = "answered"
        BY <1>5, <2>3 DEF Decrypt, Answer
      <3>2. CountersInv' /\ status'[kind'] = 400
        BY <2>1, <3>1 DEF CountersInv
      <3>3. ~agreed'
        BY <2>1, <2>3 DEF SameCrypto
      <3>4. StoredInOrder' /\ <<kind', report'>> \notin stored' /\ BodyInv'
        BY <2>1, <3>1 DEF StoredInOrder, BodyInv
      <3>5. AgreeingSidesDeliver' /\ SeenMismatchRejects'
        BY <3>2, <3>3, <3>4 DEF AgreeingSidesDeliver, SeenMismatchRejects, Delivered, HashPasses
      <3> QED BY <3>2, <3>4, <3>5
    <2> QED BY <2>2, <2>3
  <1>6. CASE Unzip
    <2>1. /\ UNCHANGED <<setting, database, pair, private, polled, kind, report, hash, agreed, stored>>
          /\ stage = "unzip" /\ hash' = HashOf(<<>>)'
      BY <1>6 DEF Unzip, BodyInv, HashOf, AgentKey
    <2>2. CASE agreed
      <3>1. body = <<Gzip>>
        BY <2>1, <2>2 DEF BodyInv, Compressed
      <3>2. stage' = "handler" /\ body' = <<>> /\ status' = status
        BY <1>6, <3>1, Layers DEF Unzip
      <3>3. CountersInv' /\ BodyInv' /\ StoredInOrder'
        BY <2>1, <2>2, <3>2 DEF CountersInv, BodyInv, StoredInOrder
      <3>4. AgreeingSidesDeliver' /\ SeenMismatchRejects'
        BY <3>2 DEF AgreeingSidesDeliver, SeenMismatchRejects, Delivered, HashPasses
      <3> QED BY <3>3, <3>4
    <2>3. CASE ~agreed
      <3>1. PICK v \in Nat \ {0} : body = <<Gzip, Rsa(v)>>
        BY <2>1, <2>3 DEF BodyInv, Encrypted
      <3>2. status' = [status EXCEPT ![kind] = 500] /\ stage' = "answered"
        BY <1>6, <3>1, Layers DEF Unzip, Answer
      <3>3. CountersInv' /\ status'[kind'] = 500
        BY <2>1, <3>2 DEF CountersInv
      <3>4. StoredInOrder' /\ <<kind', report'>> \notin stored' /\ BodyInv'
        BY <2>1, <3>2 DEF StoredInOrder, BodyInv
      <3>5. AgreeingSidesDeliver' /\ SeenMismatchRejects'
        BY <2>1, <2>3, <3>3, <3>4 DEF AgreeingSidesDeliver, SeenMismatchRejects, Delivered, HashPasses
      <3> QED BY <3>3, <3>4, <3>5
    <2> QED BY <2>2, <2>3
  <1>7. CASE Handle
    <2>1. /\ UNCHANGED <<setting, database, pair, private, polled, kind, report, body, hash, agreed>>
          /\ stage = "handler" /\ stage' = "answered" /\ agreed /\ body = <<>>
          /\ HashPasses' = HashPasses
      BY <1>7 DEF Handle, Answer, BodyInv, HashPasses, Compared, AgentKey, ServerKey
    <2>2. HashRight <=> HashPasses
      BY <2>1, HashDecides DEF BodyInv
    <2>3. BodyInv'
      BY <2>1 DEF BodyInv
    <2>4. CASE HashPasses
      <3>1. /\ status' = [status EXCEPT ![kind] = 200]
            /\ stored' = stored \cup {<<kind, report>>}
        BY <1>7, <2>1, <2>2, <2>4 DEF Handle, Answer
      <3>2. CountersInv' /\ status'[kind'] = 200
        BY <2>1, <3>1 DEF CountersInv
      <3>3. StoredInOrder'
        BY <2>1, <3>1 DEF StoredInOrder, CountersInv
      <3>4. AgreeingSidesDeliver' /\ SeenMismatchRejects'
        BY <2>1, <2>4, <3>1, <3>2 DEF AgreeingSidesDeliver, SeenMismatchRejects, Delivered, HashPasses
      <3> QED BY <2>3, <3>2, <3>3, <3>4
    <2>5. CASE ~HashPasses
      <3>1. status' = [status EXCEPT ![kind] = 400] /\ stored' = stored
        BY <1>7, <2>1, <2>2, <2>5 DEF Handle, Answer
      <3>2. CountersInv' /\ status'[kind'] = 400
        BY <2>1, <3>1 DEF CountersInv
      <3>3. StoredInOrder' /\ <<kind', report'>> \notin stored'
        BY <2>1, <3>1 DEF StoredInOrder
      <3>4. AgreeingSidesDeliver' /\ SeenMismatchRejects'
        BY <2>1, <2>5, <3>2, <3>3 DEF AgreeingSidesDeliver, SeenMismatchRejects, Delivered, HashPasses
      <3> QED BY <2>3, <3>2, <3>3, <3>4
    <2> QED BY <2>4, <2>5
  <1>8. CASE Rotate \/ RestartServer \/ UNCHANGED deliveryVars
    <2>1. /\ UNCHANGED <<setting, database, stage, kind, report, body, hash, status,
                         agreed, stored>>
          /\ HashOf(<<>>)' = HashOf(<<>>) /\ HashPasses' = HashPasses
      BY <1>8 DEF Rotate, RestartServer, deliveryVars, HashOf, HashPasses, Compared, AgentKey, ServerKey
    <2>2. pair' \in Nat \ {0} /\ private' \in Nat
      BY <1>8 DEF Rotate, RestartServer, deliveryVars, CountersInv, Loaded
    <2>3. CountersInv' /\ BodyInv' /\ StoredInOrder'
      BY <2>1, <2>2 DEF CountersInv, BodyInv, StoredInOrder
    <2>4. AgreeingSidesDeliver' /\ SeenMismatchRejects'
      BY <2>1 DEF AgreeingSidesDeliver, SeenMismatchRejects, Delivered, HashPasses
    <2> QED BY <2>3, <2>4
  <1> QED BY <1>1, <1>2, <1>3, <1>4, <1>5, <1>6, <1>7, <1>8,
         <1>9, <1>10 DEF Next

LEMMA DeliveryInvAlways == Spec => []DeliveryInv
  <1> QED BY DeliveryInvInit, DeliveryInvNext, PTL DEF Spec

\* Sides that agree on the pair, and on the hash where it is compared, deliver
\* every batch that fits, for every number of reports, keys, rotations and restarts (server.go:77, the order of
\* the middleware).
THEOREM AgreeingDeliver == Spec => []AgreeingSidesDeliver
  <1>1. DeliveryInv => AgreeingSidesDeliver
    BY DEF DeliveryInv
  <1> QED BY <1>1, DeliveryInvAlways, PTL

\* A difference of the keys that the server can see is refused, for every
\* number of reports, keys, rotations and restarts: the encryption always, the
\* hash where both sides have a key and the handler of the database mode
\* compares (crypto.go:89, gzip.go:101, handlers.go:276-281).
THEOREM SeenMismatchReject == Spec => []SeenMismatchRejects
  <1>1. DeliveryInv => SeenMismatchRejects
    BY DEF DeliveryInv
  <1> QED BY <1>1, DeliveryInvAlways, PTL

-----------------------------------------------------------------------------
(* The types.                                                              *)

Statuses == {NotYet, Nothing, 0, 200, 400, 500}

\* Every step keeps the types, once DeliveryInv says what the handler gets.
LEMMA DeliveryTypeNext ==
    TypeOK /\ DeliveryInv /\ DeliveryInv' /\ [Next]_deliveryVars => TypeOK'
  <1> SUFFICES ASSUME TypeOK, DeliveryInv, DeliveryInv', [Next]_deliveryVars
               PROVE  TypeOK'
    OBVIOUS
  <1>1. /\ pair' \in 1 .. MaxRotations + 1
        /\ private' \in 0 .. MaxRotations + 1
    BY DeliveryAssumption DEF TypeOK, Next, deliveryVars, Poll, NothingToSend, Build, EncryptFails,
       Receive, NextReport, Decrypt, Unzip, Handle, Rotate, RestartServer, Loaded
  <1>2. report' \in 1 .. MaxReports
    BY DeliveryAssumption DEF TypeOK, Next, deliveryVars, Poll, NothingToSend, Build, EncryptFails,
       Receive, NextReport, Decrypt, Unzip, Handle, Rotate, RestartServer
  <1>3. /\ stage' \in {"agent", "decrypt", "unzip", "handler", "answered", "end"}
        /\ kind' \in {"gauge", "counter"}
    BY DEF TypeOK, Next, deliveryVars, Poll, NothingToSend, Build, EncryptFails, Receive, NextReport,
       Decrypt, Unzip, Handle, Answer, Rotate, RestartServer
  <1>4. \/ status' = status \/ status' = NotSent
        \/ \E code \in Statuses : status' = [status EXCEPT ![kind] = code]
    BY DEF Next, deliveryVars, Poll, NothingToSend, Build, EncryptFails, Receive, NextReport, Decrypt,
       Unzip, Handle, Answer, Rotate, RestartServer, Statuses
  <1>5. \A k \in {"gauge", "counter"} : status'[k] \in Statuses
    BY <1>4 DEF TypeOK, Statuses, NotSent, DeliveryInv, CountersInv, Batches
  <1>6. stage' = "handler" => body' = <<>>
    BY DEF DeliveryInv, BodyInv
  <1>7. polled' \in BOOLEAN
    BY DEF TypeOK, Next, deliveryVars, Poll, NothingToSend, Build, EncryptFails,
       Receive, NextReport, Decrypt, Unzip, Handle, Rotate, RestartServer
  <1> QED BY <1>1, <1>2, <1>3, <1>5, <1>6, <1>7 DEF TypeOK, Statuses

\* The types of the variables, and that a body has lost all its layers, and in
\* the right order, when it reaches the handler (crypto.go:71, gzip.go:76).
THEOREM DeliveryTypeCorrect == Spec => []TypeOK
  <1>1. Init => TypeOK
    <2> SUFFICES ASSUME Init PROVE TypeOK
      OBVIOUS
    <2>1. /\ pair \in 1 .. MaxRotations + 1 /\ private \in 0 .. MaxRotations + 1
          /\ report \in 1 .. MaxReports
      BY DeliveryAssumption DEF Init, Loaded
    <2>2. polled \in BOOLEAN
      BY DEF Init
    <2>3. /\ stage = "agent" /\ kind = "gauge"
          /\ \A k \in {"gauge", "counter"} : status[k] = NotYet
      BY DEF Init, NotSent
    <2> QED BY <2>1, <2>2, <2>3 DEF TypeOK
  <1> QED BY <1>1, DeliveryTypeNext, DeliveryInvAlways, PTL DEF Spec
=============================================================================

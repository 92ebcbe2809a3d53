--------------------------- MODULE SSLClientProofs ----------------------------
(***************************************************************************)
(* Proofs about the TLS client, for sessions and reads of any length, and  *)
(* about the check of its peer, for fingerprints, names and certificates   *)
(* of any size.                                                            *)
(***************************************************************************)
EXTENDS PeerCheck, SequenceTheorems, WellFoundedInduction, TLAPS

-----------------------------------------------------------------------------
(* Runs of numbered bytes *)

\* The length and the elements of the run that comes after k.
LEMMA BytesElements ==
  ASSUME NEW k \in Nat, NEW n \in Nat
  PROVE  /\ Bytes(k + 1, n) \in Seq(Nat)
         /\ Len(Bytes(k + 1, n)) = n
         /\ \A i \in 1 .. n : Bytes(k + 1, n)[i] = k + i
<1> DEFINE b == Bytes(k + 1, n)
<1>1. \A i \in 1 .. n : k + 1 + i - 1 = k + i /\ k + i \in Nat
  OBVIOUS
<1>2. b = [i \in 1 .. n |-> k + i]
  BY <1>1 DEF Bytes
<1> HIDE DEF b
<1>3. b \in [1 .. n -> Nat]
  BY <1>1, <1>2
<1>4. b \in Seq(Nat)
  BY <1>3, SeqDef
<1>5. Len(b) = n
  BY <1>2, <1>4, LenProperties
<1>6. QED
  BY <1>2, <1>4, <1>5 DEF b

\* The same for the run from the first byte on.
LEMMA FirstBytes ==
  ASSUME NEW n \in Nat
  PROVE  /\ Bytes(1, n) \in Seq(Nat)
         /\ Len(Bytes(1, n)) = n
         /\ \A i \in 1 .. n : Bytes(1, n)[i] = i
<1>1. /\ Bytes(0 + 1, n) \in Seq(Nat)
      /\ Len(Bytes(0 + 1, n)) = n
      /\ \A i \in 1 .. n : Bytes(0 + 1, n)[i] = 0 + i
  BY BytesElements
<1>2. 0 + 1 = 1 /\ \A i \in 1 .. n : 0 + i = i
  OBVIOUS
<1>3. QED
  BY <1>1, <1>2

\* A run goes on where the run before it ended.
LEMMA BytesConcat ==
  ASSUME NEW k \in Nat, NEW n \in Nat
  PROVE  Bytes(1, k) \o Bytes(k + 1, n) = Bytes(1, k + n)
<1> DEFINE a == Bytes(1, k)
           b == Bytes(k + 1, n)
           c == Bytes(1, k + n)
<1>1. /\ a \in Seq(Nat) /\ Len(a) = k /\ \A i \in 1 .. k : a[i] = i
      /\ b \in Seq(Nat) /\ Len(b) = n /\ \A i \in 1 .. n : b[i] = k + i
      /\ c \in Seq(Nat) /\ Len(c) = k + n /\ \A i \in 1 .. k + n : c[i] = i
  <2>1. k + n \in Nat
    OBVIOUS
  <2>2. QED
    BY <2>1, BytesElements, FirstBytes
<1> HIDE DEF a, b, c
<1>2. /\ a \o b \in Seq(Nat) /\ Len(a \o b) = k + n
      /\ \A i \in 1 .. k + n : (a \o b)[i] = IF i <= k THEN a[i] ELSE b[i - k]
  <2>1. a \in Seq(Nat) /\ b \in Seq(Nat)
    BY <1>1
  <2>2. /\ a \o b \in Seq(Nat) /\ Len(a \o b) = Len(a) + Len(b)
        /\ \A i \in 1 .. Len(a) + Len(b) :
             (a \o b)[i] = IF i <= Len(a) THEN a[i] ELSE b[i - Len(a)]
    BY <2>1, ConcatProperties, Zenon
  <2>3. Len(a) = k /\ Len(b) = n
    BY <1>1
  <2>4. QED
    BY <2>2, <2>3, Zenon
<1>3. \A i \in 1 .. k + n : (a \o b)[i] = c[i]
  <2> TAKE i \in 1 .. k + n
  <2>1. CASE i <= k
    BY <2>1, <1>1, <1>2
  <2>2. CASE ~(i <= k)
    <3>1. i - k \in 1 .. n
      BY <2>2
    <3>2. b[i - k] = k + (i - k)
      BY <3>1, <1>1
    <3>3. QED
      BY <2>2, <3>2, <1>1, <1>2
  <2>3. QED
    BY <2>1, <2>2
<1>4. a \o b = c
  BY <1>1, <1>2, <1>3, SeqEqual
<1>5. QED
  BY <1>4 DEF a, b, c

\* One more byte makes the run one longer.
LEMMA BytesAppend ==
  ASSUME NEW k \in Nat
  PROVE  /\ Append(Bytes(1, k), k + 1) = Bytes(1, k + 1)
         /\ Bytes(1, k) \o <<k + 1>> = Bytes(1, k + 1)
<1>1. Bytes(k + 1, 1) = <<k + 1>>
  <2>1. /\ Bytes(k + 1, 1) \in Seq(Nat) /\ Len(Bytes(k + 1, 1)) = 1
        /\ \A i \in 1 .. 1 : Bytes(k + 1, 1)[i] = k + i
    <3>1. 1 \in Nat
      OBVIOUS
    <3>2. QED
      BY <3>1, BytesElements
  <2>2. QED
    BY <2>1, SeqEqual, LenProperties
<1>2. Bytes(1, k) \o <<k + 1>> = Bytes(1, k + 1)
  BY <1>1, BytesConcat
<1>3. Bytes(1, k) \in Seq(Nat)
  BY FirstBytes
<1>4. QED
  BY <1>2, <1>3, AppendIsConcat

\* A run within the bytes of the session is one the type invariant allows.
LEMMA BytesType ==
  ASSUME NEW m \in 0 .. MaxBytes
  PROVE  Bytes(1, m) \in Seq(1 .. MaxBytes) /\ Len(Bytes(1, m)) = m
<1>1. MaxBytes \in Nat /\ m \in Nat
  BY SSLConstantsOK
<1>2. \A i \in 1 .. m : 1 + i - 1 \in 1 .. MaxBytes
  <2> TAKE i \in 1 .. m
  <2>1. i \in Int /\ i >= 1 /\ i <= m /\ m <= MaxBytes
    BY <1>1
  <2>2. QED
    BY <1>1, <2>1
<1>3. Bytes(1, m) \in [1 .. m -> 1 .. MaxBytes]
  BY <1>2 DEF Bytes
<1>4. Bytes(1, m) \in Seq(1 .. MaxBytes)
  BY <1>1, <1>3, SeqDef
<1>5. QED
  BY <1>1, <1>4, FirstBytes

-----------------------------------------------------------------------------
(* What a read does *)

\* Whatever is waiting in _peek, a read that returns bytes returns the ones
\* that follow those read before.
LEMMA ReadGrows ==
  ASSUME IInv, NEW size \in 1 .. MaxRead, ReadPeeked(size) \/ ReadBytes(size)
  PROVE  \E n \in 1 .. sent - Len(got) :
           /\ got' = Bytes(1, Len(got) + n)
           /\ got' = got \o Bytes(Len(got) + 1, n)
           /\ taken' = Len(got) + n
           /\ peek' = 0
           /\ connected /\ UNCHANGED <<connected, context, socket>>
<1> DEFINE k == Len(got)
<1>1. /\ MaxBytes \in Nat /\ k \in Nat
      /\ sent \in 0 .. MaxBytes /\ taken \in 0 .. MaxBytes /\ peek \in 0 .. MaxBytes
  BY SSLConstantsOK, LenProperties DEF IInv, TypeOK
<1>2. connected /\ UNCHANGED <<connected, context, socket>> /\ peek' = 0
  BY DEF ReadPeeked, ReadBytes
<1>3. /\ got = Bytes(1, k) /\ taken <= sent
      /\ taken = IF peek = 0 THEN k ELSE k + 1
      /\ peek # 0 => peek = k + 1
  BY <1>1, <1>2 DEF IInv, StagesFit, ReadsInOrder
<1> HIDE DEF k
<1>4. CASE ReadPeeked(size)
  <2>1. peek # 0 /\ got' = Append(got, k + 1) /\ taken' = taken
    BY <1>3, <1>4 DEF ReadPeeked
  <2>2. /\ got' = Bytes(1, k + 1)
        /\ taken' = k + 1 /\ 1 \in 1 .. sent - k
    <3>1. got' = Append(Bytes(1, k), k + 1)
      BY <1>3, <2>1
    <3>2. got' = Bytes(1, k + 1)
      BY <1>1, <3>1, BytesAppend
    <3>3. taken = k + 1 /\ taken <= sent
      BY <1>3, <2>1
    <3>4. QED
      BY <1>1, <2>1, <3>2, <3>3
  <2>3. 1 \in Nat
    OBVIOUS
  <2>4. got' = got \o Bytes(k + 1, 1)
    BY <1>1, <1>3, <2>2, <2>3, BytesConcat
  <2>5. QED
    BY <1>2, <2>2, <2>4 DEF k
<1>5. CASE ReadBytes(size)
  <2>1. PICK n \in Readable \ {-1, 0} :
          /\ got' = got \o (IF peek # 0 THEN <<peek>> ELSE <<>>) \o Bytes(taken + 1, n)
          /\ taken' = taken + n
    BY <1>5 DEF ReadBytes
  <2>2. n \in Nat /\ n >= 1 /\ taken + n <= sent
    <3>1. n \in -1 .. MaxBytes /\ (link = "broken" => n <= Unread)
          /\ (link # "broken" => n \in 1 .. Unread)
      BY <1>2, <2>1 DEF Readable, IInv, StagesFit, TypeOK
    <3>2. QED
      BY <1>1, <2>1, <3>1 DEF Unread
  <2>3. CASE peek = 0
    <3>1. got' = got \o Bytes(k + 1, n) /\ taken' = k + n
      <4>1. got \o <<>> = got
        BY <1>1, <1>3, FirstBytes, ConcatEmptySeq
      <4>2. QED
        BY <1>1, <1>3, <2>1, <2>3, <4>1
    <3>2. got' = Bytes(1, k + n)
      BY <1>1, <1>3, <2>2, <3>1, BytesConcat
    <3>3. n \in 1 .. sent - k
      BY <1>1, <1>3, <2>2, <2>3
    <3>4. QED
      BY <1>2, <3>1, <3>2, <3>3 DEF k
  <2>4. CASE peek # 0
    <3>1. got \o <<peek>> = Bytes(1, k + 1)
      BY <1>1, <1>3, <2>4, BytesAppend
    <3>2. got' = Bytes(1, k + 1) \o Bytes(k + 1 + 1, n) /\ taken' = k + 1 + n
      BY <1>1, <1>3, <2>1, <2>4, <3>1
    <3>3. k + 1 \in Nat /\ n + 1 \in Nat /\ k + 1 + n = k + (n + 1)
      BY <1>1, <2>2
    <3>4. got' = Bytes(1, k + (n + 1))
      BY <2>2, <3>2, <3>3, BytesConcat
    <3>5. got' = got \o Bytes(k + 1, n + 1)
      BY <1>1, <1>3, <3>3, <3>4, BytesConcat
    <3>6. n + 1 \in 1 .. sent - k
      BY <1>1, <1>3, <2>2, <2>4
    <3>7. QED
      BY <1>2, <3>2, <3>3, <3>4, <3>5, <3>6 DEF k
  <2>5. QED
    BY <2>3, <2>4
<1>6. QED
  BY <1>4, <1>5

\* A read that returns nothing changes nothing, or stops the connection.
LEMMA ReadNothingStops ==
  ASSUME ReadNothing \/ \E res \in Readable : AvailableEffect(res)
  PROVE  StopEffect \/ UNCHANGED <<connected, peek, context, socket>>
BY DEF ReadNothing, AvailableEffect

-----------------------------------------------------------------------------
(* The inductive invariant *)

\* The client is constructed in a state of the inductive invariant.
LEMMA InitSSL == Init => IInv
<1> SUFFICES ASSUME Init PROVE IInv
  OBVIOUS
<1>1. MaxBytes \in Nat /\ HandshakeTimeout \in Nat
  BY SSLConstantsOK
<1>2. TypeOK
  <2>1. got \in Seq(1 .. MaxBytes)
    BY EmptySeq DEF Init
  <2>2. 0 \in 0 .. MaxBytes /\ 0 \in 0 .. HandshakeTimeout + 1
    BY <1>1
  <2>3. QED
    BY <2>1, <2>2 DEF Init, TypeOK
<1>3. StagesFit
  BY DEF Init, StagesFit
<1>4. QED
  BY <1>2, <1>3 DEF IInv

\* stop(), wherever it is called from, and whatever was read before.
LEMMA StopKeepsIInv ==
  ASSUME IInv, StopEffect, UNCHANGED <<session, taken, got, elapsed>>, pc' = "idle"
  PROVE  IInv'
<1>1. TypeOK'
  <2>1. 0 \in 0 .. MaxBytes
    BY SSLConstantsOK
  <2>2. /\ connected' = FALSE /\ peek' = 0 /\ socket' = FALSE /\ context' = "blank"
        /\ link' = link /\ sent' = sent /\ taken' = taken /\ got' = got
        /\ elapsed' = elapsed /\ pc' = "idle"
    BY DEF StopEffect, StopSslSocket, session
  <2>3. QED
    BY <2>1, <2>2 DEF IInv, TypeOK
<1>2. StagesFit'
  BY DEF StagesFit, StopEffect, StopSslSocket
<1>3. QED
  BY <1>1, <1>2 DEF IInv

\* A step that leaves the bytes read and kept alone keeps their order.
LEMMA SameBytes ==
  ASSUME ReadsInOrder, sent \in Nat, sent' \in Nat, sent' >= sent, taken \in Nat,
         UNCHANGED <<got, taken, peek>>
  PROVE  ReadsInOrder'
BY DEF ReadsInOrder

\* Every step of the client, of the server and of the network keeps it.
LEMMA StepSSL == IInv /\ [Next]_vars => IInv'
<1> SUFFICES ASSUME IInv, [Next]_vars PROVE IInv'
  OBVIOUS
<1>0. /\ MaxBytes \in Nat /\ HandshakeTimeout \in Nat
      /\ TypeOK /\ StagesFit
  BY SSLConstantsOK DEF IInv
<1>1. CASE UNCHANGED vars
  BY <1>0, <1>1 DEF vars, session, IInv, TypeOK, StagesFit, ReadsInOrder
<1>2. CASE (Connect \/ Configure \/ HandshakeFails) /\ ConnectFails
  BY <1>2, StopKeepsIInv DEF ConnectFails
<1>3. CASE Connect /\ ~ConnectFails
  <2>1. /\ pc' = "configure" /\ socket' = TRUE /\ ~connected
        /\ UNCHANGED <<connected, peek, context, link, sent, taken, got, elapsed>>
    BY <1>3 DEF Connect, session
  <2>2. TypeOK'
    BY <1>0, <2>1 DEF TypeOK
  <2>3. StagesFit'
    BY <1>0, <2>1 DEF StagesFit
  <2>4. QED
    BY <2>2, <2>3 DEF IInv
<1>4. CASE Configure /\ ~ConnectFails
  <2>1. 0 \in 0 .. HandshakeTimeout + 1
    BY <1>0
  <2>2. /\ pc = "configure" /\ pc' = "handshake" /\ context' = "set up" /\ elapsed' = 0
        /\ UNCHANGED <<connected, peek, socket, link, sent, taken, got>>
    BY <1>4 DEF Configure, session
  <2>3. TypeOK'
    BY <1>0, <2>1, <2>2 DEF TypeOK
  <2>4. StagesFit'
    BY <1>0, <2>2 DEF StagesFit
  <2>5. QED
    BY <2>3, <2>4 DEF IInv
<1>5. CASE HandshakeWaits
  <2>1. elapsed \in 0 .. HandshakeTimeout + 1 /\ elapsed <= HandshakeTimeout
    BY <1>0, <1>5 DEF HandshakeWaits, TypeOK
  <2>2. elapsed + 1 \in 0 .. HandshakeTimeout + 1
    BY <1>0, <2>1
  <2>3. /\ pc = "handshake" /\ elapsed' = elapsed + 1
        /\ UNCHANGED <<connected, peek, context, socket, link, sent, taken, got, pc>>
    BY <1>5 DEF HandshakeWaits, session
  <2>4. TypeOK'
    BY <1>0, <2>2, <2>3 DEF TypeOK
  <2>5. StagesFit'
    BY <1>0, <2>3 DEF StagesFit
  <2>6. QED
    BY <2>4, <2>5 DEF IInv
<1>6. CASE HandshakeDone
  <2>1. got' = Bytes(1, 0) /\ Bytes(1, 0) \in Seq(1 .. MaxBytes) /\ Len(got') = 0
    <3>1. Bytes(1, 0) = <<>>
      <4>1. Bytes(1, 0) \in Seq(Nat) /\ Len(Bytes(1, 0)) = 0
        BY FirstBytes
      <4>2. QED
        BY <4>1, EmptySeq
    <3>2. QED
      BY <1>6, <3>1, EmptySeq DEF HandshakeDone
  <2>2. TypeOK'
    <3>1. /\ context' = "established" /\ connected' = TRUE /\ pc' = "idle"
          /\ link' = "up" /\ sent' = 0 /\ taken' = 0
          /\ UNCHANGED <<peek, socket, elapsed>>
      BY <1>6 DEF HandshakeDone
    <3>2. 0 \in 0 .. MaxBytes /\ got' \in Seq(1 .. MaxBytes)
      BY <1>0, <2>1
    <3>3. QED
      BY <1>0, <3>1, <3>2 DEF TypeOK
  <2>3. peek = 0
    BY <1>0, <1>6 DEF HandshakeDone, StagesFit
  <2>4. ReadsInOrder'
    BY <1>6, <2>1, <2>3 DEF HandshakeDone, ReadsInOrder
  <2>5. StagesFit'
    BY <1>6, <2>4 DEF HandshakeDone, StagesFit
  <2>6. QED
    BY <2>2, <2>5 DEF IInv
<1>7. CASE Available
  <2>1. CASE StopEffect
    BY <1>7, <2>1, StopKeepsIInv DEF Available
  <2>2. CASE UNCHANGED <<connected, peek, context, socket>>
    BY <1>0, <1>7, <2>2 DEF Available, session, IInv, TypeOK, StagesFit, ReadsInOrder
  <2>3. QED
    BY <1>7, <2>1, <2>2, ReadNothingStops DEF Available
<1>8. CASE (Read \/ Peek) /\ ReadNothing
  <2>1. UNCHANGED <<session, taken, got, elapsed>> /\ pc = "idle" /\ pc' = "idle"
    BY <1>8 DEF Read, Peek, ReadNothing, session
  <2>2. CASE StopEffect
    BY <2>1, <2>2, StopKeepsIInv
  <2>3. CASE UNCHANGED <<connected, peek, context, socket>>
    BY <1>0, <2>1, <2>3 DEF session, IInv, TypeOK, StagesFit, ReadsInOrder
  <2>4. QED
    BY <1>8, <2>2, <2>3, ReadNothingStops
<1>9. CASE Read /\ ~ReadNothing
  <2>1. PICK size \in 1 .. MaxRead : ReadPeeked(size) \/ ReadBytes(size)
    BY <1>9 DEF Read
  <2>2. /\ UNCHANGED <<session, pc, elapsed>> /\ pc = "idle"
    BY <1>9 DEF Read
  <2>3. PICK n \in 1 .. sent - Len(got) :
          /\ got' = Bytes(1, Len(got) + n)
          /\ taken' = Len(got) + n
          /\ peek' = 0
          /\ connected /\ UNCHANGED <<connected, context, socket>>
    BY <2>1, ReadGrows
  <2>4. Len(got) + n \in 0 .. MaxBytes /\ Len(got) + n <= sent
    <3>1. Len(got) \in Nat /\ sent \in 0 .. MaxBytes
      BY <1>0, LenProperties DEF TypeOK
    <3>2. QED
      BY <1>0, <3>1
  <2>5. got' \in Seq(1 .. MaxBytes) /\ Len(got') = Len(got) + n
    BY <2>3, <2>4, BytesType
  <2>6. 0 \in 0 .. MaxBytes
    BY <1>0
  <2>7. TypeOK'
    BY <1>0, <2>2, <2>3, <2>4, <2>5, <2>6 DEF TypeOK, session
  <2>8. ReadsInOrder'
    BY <2>2, <2>3, <2>4, <2>5 DEF ReadsInOrder, session
  <2>9. StagesFit'
    BY <1>0, <2>2, <2>3, <2>8 DEF StagesFit
  <2>10. QED
    BY <2>7, <2>9 DEF IInv
<1>10. CASE Peek /\ ~ReadNothing
  <2>1. /\ connected /\ peek = 0 /\ pc = "idle"
        /\ peek' = taken + 1 /\ taken' = taken + 1
        /\ UNCHANGED <<connected, context, socket, got, session, pc, elapsed>>
        /\ \E res \in Readable : res > 0
    BY <1>10 DEF Peek
  <2>2. sent \in 0 .. MaxBytes /\ taken \in 0 .. MaxBytes /\ Len(got) \in Nat
    BY <1>0, LenProperties DEF TypeOK
  <2>3. taken + 1 <= sent
    <3>1. PICK n \in Readable : n > 0
      BY <2>1
    <3>2. n \in -1 .. MaxBytes /\ (link = "broken" => n <= Unread)
          /\ (link # "broken" => Unread > 0)
      BY <1>0, <2>1, <3>1 DEF Readable, StagesFit, TypeOK
    <3>3. QED
      BY <1>0, <2>2, <3>1, <3>2 DEF Unread
  <2>4. taken + 1 \in 0 .. MaxBytes
    BY <1>0, <2>2, <2>3
  <2>5. TypeOK'
    BY <1>0, <2>1, <2>4 DEF TypeOK, session
  <2>6. ReadsInOrder'
    BY <1>0, <2>1, <2>2, <2>3 DEF StagesFit, ReadsInOrder, session
  <2>7. QED
    BY <1>0, <2>1, <2>5, <2>6 DEF IInv, StagesFit
<1>11. CASE Write
  BY <1>0, <1>11 DEF Write, session, IInv, TypeOK, StagesFit, ReadsInOrder
<1>12. CASE WriteReturns /\ StopEffect
  BY <1>12, StopKeepsIInv DEF WriteReturns
<1>13. CASE WriteReturns /\ ~StopEffect
  <2>1. /\ pc = "writing" /\ pc' = "idle"
        /\ UNCHANGED <<connected, peek, context, socket, link, sent, taken, got, elapsed>>
    BY <1>13 DEF WriteReturns, session
  <2>2. TypeOK'
    BY <1>0, <2>1 DEF TypeOK
  <2>3. ReadsInOrder => ReadsInOrder'
    BY <2>1 DEF ReadsInOrder
  <2>4. connected
    BY <1>0, <2>1 DEF StagesFit
  <2>5. QED
    BY <1>0, <2>1, <2>2, <2>3, <2>4 DEF IInv, StagesFit
<1>14. CASE Stop
  BY <1>14, StopKeepsIInv DEF Stop
<1>15. CASE ServerSends \/ ServerEnds
  <2>1. /\ UNCHANGED <<connected, peek, context, socket, taken, got, pc, elapsed>>
        /\ sent' \in 0 .. MaxBytes /\ sent' >= sent /\ link' \in {"up", "closed", "broken"}
        /\ sent \in Nat /\ sent' \in Nat /\ taken \in Nat
    <3>1. sent \in 0 .. MaxBytes /\ taken \in 0 .. MaxBytes
      BY <1>0 DEF TypeOK
    <3>2. CASE ServerSends
      <4>1. sent < MaxBytes /\ sent' = sent + 1 /\ link' = "up"
            /\ UNCHANGED <<connected, peek, context, socket, taken, got, pc, elapsed>>
        BY <3>2 DEF ServerSends
      <4>2. QED
        BY <1>0, <3>1, <4>1
    <3>3. CASE ServerEnds
      <4>1. sent' = sent /\ link' \in {"up", "closed", "broken"}
            /\ UNCHANGED <<connected, peek, context, socket, taken, got, pc, elapsed>>
        BY <3>3 DEF ServerEnds
      <4>2. QED
        BY <1>0, <3>1, <4>1
    <3>4. QED
      BY <1>15, <3>2, <3>3
  <2>2. TypeOK'
    BY <1>0, <2>1 DEF TypeOK
  <2>3. ReadsInOrder => ReadsInOrder'
    BY <2>1, SameBytes
  <2>4. QED
    BY <1>0, <2>1, <2>2, <2>3 DEF IInv, StagesFit
<1>16. QED
  BY <1>1, <1>2, <1>3, <1>4, <1>5, <1>6, <1>7, <1>8, <1>9, <1>10, <1>11, <1>12,
     <1>13, <1>14, <1>15
     DEF Next, HandshakeFails

\* The types of all variables, and what is connected when.
THEOREM SSLInvHolds == Spec => []IInv
BY InitSSL, StepSSL, PTL DEF Spec

\* The types alone, as the run checks them.
THEOREM SSLTypeCorrect == Spec => []TypeOK
BY SSLInvHolds, PTL DEF IInv

\* However a connection ends, nothing of it is left for the next.
THEOREM SSLNothingLeftBehind == Spec => []NothingLeftBehind
<1>1. IInv => NothingLeftBehind
  BY DEF IInv, StagesFit, NothingLeftBehind
<1>2. QED
  BY <1>1, SSLInvHolds, PTL

-----------------------------------------------------------------------------
(* The client's steps are steps of ISocket *)

\* The client starts closed, with nothing sent and nothing got.
LEMMA InitIsISocket == Init => S!Init
BY DEF Init, S!Init

\* stop() closes, or finds nothing open; peek() and connect() are unseen.
LEMMA StepIsISocket == IInv /\ [Next]_vars => [S!Next]_(S!vars)
<1> SUFFICES ASSUME IInv, [Next]_vars PROVE [S!Next]_(S!vars)
  OBVIOUS
<1> USE DEF S!Next, S!vars
<1>1. CASE UNCHANGED vars
  BY <1>1 DEF vars, session
<1>2. CASE (Connect \/ Configure \/ HandshakeFails) /\ ConnectFails
  BY <1>2 DEF ConnectFails, StopEffect, session, S!Close
<1>3. CASE (Connect \/ Configure) /\ ~ConnectFails
  BY <1>3 DEF Connect, Configure, session
<1>4. CASE HandshakeWaits
  BY <1>4 DEF HandshakeWaits, session
<1>5. CASE HandshakeDone
  BY <1>5 DEF HandshakeDone, S!Open, IInv, StagesFit
<1>6. CASE Available
  BY <1>6, ReadNothingStops DEF Available, StopEffect, session, S!Close
<1>7. CASE (Read \/ Peek) /\ ReadNothing
  BY <1>7, ReadNothingStops DEF Read, Peek, ReadNothing, StopEffect, session, S!Close
<1>8. CASE Read /\ ~ReadNothing
  <2>1. PICK size \in 1 .. MaxRead : ReadPeeked(size) \/ ReadBytes(size)
    BY <1>8 DEF Read
  <2>2. PICK n \in 1 .. sent - Len(got) :
          /\ got' = got \o Bytes(Len(got) + 1, n)
          /\ connected /\ UNCHANGED connected
    BY <2>1, ReadGrows
  <2>3. Bytes(Len(got) + 1, n) = [i \in 1 .. n |-> Len(got) + i]
    <3>1. Len(got) \in Nat
      BY LenProperties DEF IInv, TypeOK
    <3>2. \A i \in 1 .. n : Len(got) + 1 + i - 1 = Len(got) + i
      BY <3>1
    <3>3. QED
      BY <3>2 DEF Bytes
  <2>4. UNCHANGED sent /\ connected' \in BOOLEAN
    BY <1>8, <2>2 DEF Read, session, IInv, TypeOK
  <2>5. S!Receive
    BY <2>2, <2>3, <2>4 DEF S!Receive
  <2>6. QED
    BY <2>5
<1>9. CASE Peek /\ ~ReadNothing
  BY <1>9 DEF Peek, session
<1>10. CASE Write
  BY <1>10 DEF Write, session
<1>11. CASE WriteReturns
  BY <1>11 DEF WriteReturns, StopEffect, session, S!Close
<1>12. CASE Stop
  BY <1>12 DEF Stop, StopEffect, session, S!Close
<1>13. CASE ServerSends
  BY <1>13 DEF ServerSends, S!Arrive, IInv, StagesFit
<1>14. CASE ServerEnds
  BY <1>14 DEF ServerEnds
<1>15. QED
  BY <1>1, <1>2, <1>3, <1>4, <1>5, <1>6, <1>7, <1>8, <1>9, <1>10, <1>11, <1>12,
     <1>13, <1>14
     DEF Next, HandshakeFails

\* For a session of any length and reads of any size: every byte once, and
\* in order, until the connection closes.
THEOREM SSLClientIsISocket == Spec => ImplementsISocket
BY InitIsISocket, StepIsISocket, SSLInvHolds, PTL DEF Spec, ImplementsISocket, S!Spec

-----------------------------------------------------------------------------
(* Fingerprints: what the loop over the bytes reads, by induction *)

\* Every set of numbers has a least one, and one that has 0 and with every
\* number the next has them all: induction, over a set.
LEMMA LeastNumber ==
  ASSUME NEW T, T \subseteq Nat, T # {}
  PROVE  \E x \in T : \A y \in T : x <= y
<1> DEFINE R == OpToRel(<, Nat)
<1>1. \A x, y \in Nat : <<x, y>> \in R <=> x < y
  BY DEF OpToRel
<1>2. IsWellFoundedOn(R, Nat)
  BY NatLessThanWellFounded, Zenon DEF R
<1> HIDE DEF R
<1>3. \E x \in T : \A y \in T : ~ (<<y, x>> \in R)
  BY <1>2, WFMin
<1>4. PICK x \in T : \A y \in T : ~ (<<y, x>> \in R)
  BY <1>3
<1>5. \A y \in T : y \in Nat /\ x \in Nat /\ ~(y < x)
  BY <1>1, <1>4
<1>6. \A y \in T : x <= y
  BY <1>5
<1> QED
  BY <1>6

\* Induction, with a set in place of a predicate.
LEMMA SetInduction ==
  ASSUME NEW K, 0 \in K, \A n \in Nat : n \in K => n + 1 \in K
  PROVE  Nat \subseteq K
<1>1. ASSUME Nat \ K # {} PROVE FALSE
  <2>1. PICK x \in Nat \ K : \A y \in Nat \ K : x <= y
    BY <1>1, LeastNumber
  <2>2. x - 1 \in Nat /\ ~(x <= x - 1) /\ (x - 1) + 1 = x
    BY <2>1
  <2>3. QED
    BY <2>1, <2>2
<1> QED
  BY <1>1

\* The equation that defines Reading().
LEMMA ReadingEquation ==
  ASSUME NEW fp
  PROVE  Reading(fp) = [n \in 0 .. FpBytes |->
                          IF n = 0 THEN Started ELSE ReadByte(fp, Reading(fp)[n - 1])]
<1> DEFINE Step(g, n) == IF n = 0 THEN Started ELSE ReadByte(fp, g[n - 1])
           Good(g, k) == g = [n \in 0 .. k |-> Step(g, n)]
           K == {k \in Nat : \E g : Good(g, k)}
<1>1. 0 \in K
  <2> DEFINE g == [n \in 0 .. 0 |-> Started]
  <2>1. Good(g, 0)
    OBVIOUS
  <2> QED
    BY <2>1
<1>2. ASSUME NEW k \in Nat, k \in K PROVE k + 1 \in K
  <2>1. PICK g : Good(g, k)
    BY <1>2
  <2> DEFINE h == [n \in 0 .. k + 1 |-> IF n = k + 1 THEN ReadByte(fp, g[k]) ELSE g[n]]
  <2>2. \A n \in 0 .. k + 1 : h[n] = Step(h, n)
    <3> TAKE n \in 0 .. k + 1
    <3>1. CASE n = k + 1
      BY <3>1
    <3>2. CASE n = 0
      BY <2>1, <3>2
    <3>3. CASE n # k + 1 /\ n # 0
      <4>1. n \in 0 .. k /\ n - 1 \in 0 .. k /\ n - 1 \in 0 .. k + 1 /\ n - 1 # k + 1
        BY <3>3
      <4>2. h[n] = g[n] /\ h[n - 1] = g[n - 1]
        BY <3>3, <4>1
      <4>3. g[n] = ReadByte(fp, g[n - 1])
        BY <2>1, <3>3, <4>1
      <4> QED
        BY <3>3, <4>2, <4>3
    <3> QED
      BY <3>1, <3>2, <3>3
  <2>3. Good(h, k + 1)
    BY <2>2
  <2>4. k + 1 \in Nat
    OBVIOUS
  <2> HIDE DEF Good, h
  <2> QED
    BY <2>3, <2>4
<1>3. FpBytes \in K
  BY <1>1, <1>2, SetInduction, PeerCheckConstantsOK
<1> DEFINE Eq(r) == r = [n \in 0 .. FpBytes |-> IF n = 0 THEN Started ELSE ReadByte(fp, r[n - 1])]
<1>4. \E r : Eq(r)
  BY <1>3
<1>5. Reading(fp) = CHOOSE r : Eq(r)
  BY DEF Reading
<1> HIDE DEF Eq
<1>6. Eq(Reading(fp))
  BY <1>4, <1>5, Zenon
<1> QED
  BY <1>6, Zenon DEF Eq

\* SkipSeparators() goes to the first character that is not a separator.
LEMMA SkipFacts ==
  ASSUME NEW fp \in Seq(Chars), NEW pos \in 1 .. Len(fp) + 1
  PROVE  /\ SkipSeparators(fp, pos) \in pos .. Len(fp) + 1
         /\ \A k \in pos .. SkipSeparators(fp, pos) - 1 : IsSeparator(fp[k])
         /\ SkipSeparators(fp, pos) <= Len(fp) => ~IsSeparator(fp[SkipSeparators(fp, pos)])
<1> DEFINE T == {p \in pos .. Len(fp) + 1 : p > Len(fp) \/ ~IsSeparator(fp[p])}
           s == SkipSeparators(fp, pos)
<1>1. Len(fp) \in Nat
  BY LenProperties
<1>2. Len(fp) + 1 \in T /\ T \subseteq Nat
  BY <1>1
<1> HIDE DEF T
<1>3. \E x \in T : \A y \in T : x <= y
  BY <1>2, LeastNumber
<1>4. s = CHOOSE x \in T : \A y \in T : x <= y
  BY Zenon DEF SkipSeparators, Min, T
<1> HIDE DEF s
<1>5. s \in T /\ \A y \in T : s <= y
  BY <1>3, <1>4
<1>6. ASSUME NEW k \in pos .. s - 1 PROVE IsSeparator(fp[k])
  <2>1. k \in pos .. Len(fp) + 1 /\ ~(s <= k) /\ k <= Len(fp)
    BY <1>1, <1>5 DEF T
  <2> QED
    BY <1>5, <2>1 DEF T
<1> QED
  BY <1>1, <1>5, <1>6 DEF T, s

\* A digit of a fingerprint is not skipped.
LEMMA HexIsNoSeparator ==
  ASSUME NEW c, IsHex(c)
  PROVE  ~IsSeparator(c)
BY DEF IsHex, IsSeparator

\* Skipping ends at the first character that is no separator.
LEMMA SkipIsTheFirst ==
  ASSUME NEW fp \in Seq(Chars), NEW pos \in 1 .. Len(fp) + 1, NEW p \in pos .. Len(fp),
         \A k \in pos .. p - 1 : IsSeparator(fp[k]), ~IsSeparator(fp[p])
  PROVE  SkipSeparators(fp, pos) = p
<1> DEFINE s == SkipSeparators(fp, pos)
<1>1. Len(fp) \in Nat
  BY LenProperties
<1>2. /\ s \in pos .. Len(fp) + 1
      /\ \A k \in pos .. s - 1 : IsSeparator(fp[k])
      /\ s <= Len(fp) => ~IsSeparator(fp[s])
  BY SkipFacts
<1> HIDE DEF s
<1>3. ~(s < p) /\ ~(p < s)
  BY <1>1, <1>2
<1> QED
  BY <1>1, <1>2, <1>3 DEF s

\* What the reading of one byte finds and leaves.
LEMMA ReadByteFacts ==
  ASSUME NEW fp \in Seq(Chars), NEW read,
         read.ok \in BOOLEAN,
         read.ok => read.pos \in 1 .. Len(fp) + 1 /\ read.bytes \in Seq(Nat)
  PROVE  LET p == SkipSeparators(fp, read.pos)
             b == 16 * Nibble(fp[p]) + Nibble(fp[p + 1])
             next == ReadByte(fp, read)
         IN /\ next.ok \in BOOLEAN
            /\ next.ok <=> read.ok /\ p < Len(fp) /\ IsHex(fp[p]) /\ IsHex(fp[p + 1])
            /\ next.ok => /\ next.pos = p + 2 /\ next.pos \in 1 .. Len(fp) + 1
                          /\ next.bytes = Append(read.bytes, b) /\ b \in Nat
                          /\ next.bytes \in Seq(Nat)
<1> DEFINE p == SkipSeparators(fp, read.pos)
           b == 16 * Nibble(fp[p]) + Nibble(fp[p + 1])
           next == ReadByte(fp, read)
           follows == read.ok /\ p < Len(fp) /\ IsHex(fp[p]) /\ IsHex(fp[p + 1])
<1>1. Nibble(fp[p]) \in Nat /\ Nibble(fp[p + 1]) \in Nat
  BY DEF Nibble
<1>2. b \in Nat /\ b = Nibble(fp[p + 1]) + 16 * Nibble(fp[p])
  BY <1>1
<1>3. Len(fp) \in Nat
  BY LenProperties
<1>4. CASE follows
  <2>1. next = [ok |-> TRUE, pos |-> p + 2, bytes |-> Append(read.bytes, b)]
    BY <1>2, <1>4 DEF ReadByte
  <2>2. p \in read.pos .. Len(fp) + 1 /\ read.pos \in 1 .. Len(fp) + 1
    BY <1>4, SkipFacts
  <2> HIDE DEF p, b
  <2>3. p + 2 \in 1 .. Len(fp) + 1
    BY <1>3, <1>4, <2>2
  <2>4. Append(read.bytes, b) \in Seq(Nat)
    BY <1>2, <1>4
  <2> HIDE DEF next
  <2>5. next.ok = TRUE /\ next.pos = p + 2 /\ next.bytes = Append(read.bytes, b)
    BY <2>1
  <2> QED
    BY <1>2, <1>4, <2>3, <2>4, <2>5 DEF p, b, next
<1>5. CASE ~follows
  <2>1. next = Refused
    BY <1>5 DEF ReadByte
  <2>2. next.ok = FALSE
    BY <2>1 DEF Refused
  <2> QED
    BY <1>5, <2>2
<1> QED
  BY <1>4, <1>5

\* The reading before the first byte and after each.
LEMMA ReadingSteps ==
  ASSUME NEW fp
  PROVE  /\ Reading(fp)[0] = Started
         /\ \A n \in 0 .. FpBytes - 1 : Reading(fp)[n + 1] = ReadByte(fp, Reading(fp)[n])
<1> DEFINE r == Reading(fp)
<1>1. FpBytes \in Nat
  BY PeerCheckConstantsOK
<1>2. r = [n \in 0 .. FpBytes |-> IF n = 0 THEN Started ELSE ReadByte(fp, r[n - 1])]
  BY ReadingEquation
<1> HIDE DEF r
<1>3. \A n \in 0 .. FpBytes : r[n] = IF n = 0 THEN Started ELSE ReadByte(fp, r[n - 1])
  BY <1>2
<1>4. ASSUME NEW n \in 0 .. FpBytes - 1 PROVE r[n + 1] = ReadByte(fp, r[n])
  <2>1. n + 1 \in 0 .. FpBytes /\ n + 1 # 0 /\ (n + 1) - 1 = n
    BY <1>1
  <2> QED
    BY <1>3, <2>1
<1>5. r[0] = Started
  BY <1>1, <1>3
<1> QED
  BY <1>4, <1>5 DEF r

\* As long as it goes well it has read as many bytes as turns were taken.
LEMMA ReadingFacts ==
  ASSUME NEW fp \in Seq(Chars), NEW n \in 0 .. FpBytes
  PROVE  LET r == Reading(fp)[n]
         IN /\ r.ok \in BOOLEAN
            /\ r.ok => /\ r.pos \in 1 .. Len(fp) + 1
                       /\ r.bytes \in Seq(Nat) /\ Len(r.bytes) = n
<1> DEFINE r(k) == Reading(fp)[k]
           Good(k) == /\ r(k).ok \in BOOLEAN
                      /\ r(k).ok => /\ r(k).pos \in 1 .. Len(fp) + 1
                                    /\ r(k).bytes \in Seq(Nat) /\ Len(r(k).bytes) = k
           K == {k \in Nat : k <= FpBytes => Good(k)}
<1>1. FpBytes \in Nat /\ Len(fp) \in Nat
  BY PeerCheckConstantsOK, LenProperties
<1>2. 0 \in K
  <2>1. r(0) = Started
    BY ReadingSteps
  <2>2. /\ Started.ok = TRUE /\ Started.pos = 1 /\ Started.bytes = <<>>
    BY DEF Started
  <2>3. <<>> \in Seq(Nat) /\ Len(<<>>) = 0
    BY EmptySeq
  <2>4. 1 \in 1 .. Len(fp) + 1
    BY <1>1
  <2> HIDE DEF r
  <2>5. Good(0)
    BY <2>1, <2>2, <2>3, <2>4
  <2> QED
    BY <2>5
<1>3. ASSUME NEW k \in Nat, k \in K PROVE k + 1 \in K
  <2> SUFFICES ASSUME k + 1 <= FpBytes PROVE Good(k + 1)
    OBVIOUS
  <2>1. k \in 0 .. FpBytes - 1 /\ Good(k)
    BY <1>1, <1>3
  <2>2. r(k + 1) = ReadByte(fp, r(k))
    BY <2>1, ReadingSteps
  <2> HIDE DEF r
  <2> DEFINE b == 16 * Nibble(fp[SkipSeparators(fp, r(k).pos)])
                  + Nibble(fp[SkipSeparators(fp, r(k).pos) + 1])
  <2>3. /\ r(k + 1).ok \in BOOLEAN
        /\ r(k + 1).ok => /\ r(k).ok /\ r(k + 1).pos \in 1 .. Len(fp) + 1
                          /\ r(k + 1).bytes = Append(r(k).bytes, b) /\ b \in Nat
                          /\ r(k + 1).bytes \in Seq(Nat)
    BY <2>1, <2>2, ReadByteFacts
  <2> HIDE DEF b
  <2>4. ASSUME r(k + 1).ok PROVE Len(r(k + 1).bytes) = k + 1
    <3>1. /\ r(k).bytes \in Seq(Nat) /\ Len(r(k).bytes) = k /\ b \in Nat
          /\ r(k + 1).bytes = Append(r(k).bytes, b)
      BY <2>1, <2>3, <2>4
    <3>2. Len(Append(r(k).bytes, b)) = Len(r(k).bytes) + 1
      BY <3>1, AppendProperties
    <3> QED
      BY <3>1, <3>2
  <2> QED
    BY <2>3, <2>4
<1> HIDE DEF K
<1>4. Nat \subseteq K
  BY <1>2, <1>3, SetInduction
<1>5. n \in K
  BY <1>1, <1>4
<1> QED
  BY <1>1, <1>5 DEF K

\* What one turn of the loop does, on a reading that went well afterwards.
LEMMA ReadingTurn ==
  ASSUME NEW fp \in Seq(Chars), NEW n \in 0 .. FpBytes - 1
  PROVE  LET r == Reading(fp)[n]
             p == SkipSeparators(fp, r.pos)
             next == Reading(fp)[n + 1]
         IN /\ next.ok <=> r.ok /\ p < Len(fp) /\ IsHex(fp[p]) /\ IsHex(fp[p + 1])
            /\ next.ok => /\ p \in r.pos .. Len(fp) - 1
                          /\ \A k \in r.pos .. p - 1 : IsSeparator(fp[k])
                          /\ next.pos = p + 2
                          /\ next.bytes[n + 1] = 16 * Nibble(fp[p]) + Nibble(fp[p + 1])
                          /\ \A i \in 1 .. n : next.bytes[i] = r.bytes[i]
<1> DEFINE r == Reading(fp)[n]
           p == SkipSeparators(fp, r.pos)
           b == 16 * Nibble(fp[p]) + Nibble(fp[p + 1])
           next == Reading(fp)[n + 1]
<1>1. FpBytes \in Nat /\ Len(fp) \in Nat /\ n \in Nat /\ n \in 0 .. FpBytes
  BY PeerCheckConstantsOK, LenProperties
<1>2. /\ r.ok \in BOOLEAN
      /\ r.ok => r.pos \in 1 .. Len(fp) + 1 /\ r.bytes \in Seq(Nat) /\ Len(r.bytes) = n
  BY <1>1, ReadingFacts
<1>3. next = ReadByte(fp, r)
  BY ReadingSteps
<1> HIDE DEF r, next
<1>4. /\ next.ok \in BOOLEAN
      /\ next.ok <=> r.ok /\ p < Len(fp) /\ IsHex(fp[p]) /\ IsHex(fp[p + 1])
      /\ next.ok => /\ next.pos = p + 2
                    /\ next.bytes = Append(r.bytes, b) /\ b \in Nat
  <2>1. r.ok \in BOOLEAN
    BY <1>2
  <2>2. r.ok => r.pos \in 1 .. Len(fp) + 1 /\ r.bytes \in Seq(Nat)
    BY <1>2
  <2>3. next.ok \in BOOLEAN
    BY <1>3, <2>1, <2>2, ReadByteFacts
  <2>4. next.ok <=> r.ok /\ p < Len(fp) /\ IsHex(fp[p]) /\ IsHex(fp[p + 1])
    BY <1>3, <2>1, <2>2, ReadByteFacts
  <2>5. ASSUME next.ok
        PROVE  next.pos = p + 2 /\ next.bytes = Append(r.bytes, b) /\ b \in Nat
    <3>1. next.pos = p + 2
      BY <1>3, <2>1, <2>2, <2>5, ReadByteFacts
    <3>2. next.bytes = Append(r.bytes, b)
      <4>1. Nibble(fp[p]) \in Nat /\ Nibble(fp[p + 1]) \in Nat
        BY DEF Nibble
      <4>2. b = Nibble(fp[p + 1]) + 16 * Nibble(fp[p])
        BY <4>1
      <4>3. next = [ok |-> TRUE, pos |-> p + 2, bytes |-> Append(r.bytes, b)]
        BY <1>3, <2>4, <2>5, <4>2 DEF ReadByte
      <4> HIDE DEF p, b
      <4> QED
        BY <4>3
    <3>3. b \in Nat
      BY DEF Nibble
    <3> QED
      BY <3>1, <3>2, <3>3
  <2> HIDE DEF p, b
  <2> QED
    BY <2>3, <2>4, <2>5
<1>5. r.ok => /\ p \in r.pos .. Len(fp) + 1
              /\ \A k \in r.pos .. p - 1 : IsSeparator(fp[k])
  BY <1>2, SkipFacts
<1> HIDE DEF p, b
<1>6. ASSUME next.ok PROVE p \in r.pos .. Len(fp) - 1
  BY <1>1, <1>2, <1>4, <1>5, <1>6
<1>7. ASSUME next.ok PROVE next.bytes[n + 1] = b /\ \A i \in 1 .. n : next.bytes[i] = r.bytes[i]
  <2>1. /\ next.bytes = Append(r.bytes, b) /\ b \in Nat
        /\ r.bytes \in Seq(Nat) /\ Len(r.bytes) = n
    BY <1>2, <1>4, <1>7
  <2>2. /\ \A i \in 1 .. n : Append(r.bytes, b)[i] = r.bytes[i]
        /\ Append(r.bytes, b)[n + 1] = b
    BY <1>1, <2>1
  <2> QED
    BY <2>1, <2>2
<1> QED
  BY <1>4, <1>5, <1>6, <1>7 DEF r, p, b, next

\* A reading that goes well went well before, and keeps the bytes it has.
LEMMA EarlierReadings ==
  ASSUME NEW fp \in Seq(Chars), NEW n \in 0 .. FpBytes, Reading(fp)[n].ok
  PROVE  \A m \in 0 .. n :
           /\ Reading(fp)[m].ok
           /\ \A i \in 1 .. m : Reading(fp)[m].bytes[i] = Reading(fp)[n].bytes[i]
<1> DEFINE r(k) == Reading(fp)[k]
           Good(k) == r(k).ok =>
             \A m \in 0 .. k : r(m).ok /\ \A i \in 1 .. m : r(m).bytes[i] = r(k).bytes[i]
           K == {k \in Nat : k <= FpBytes => Good(k)}
<1>1. FpBytes \in Nat
  BY PeerCheckConstantsOK
<1>2. 0 \in K
  <2>1. \A m \in 0 .. 0 : m = 0
    OBVIOUS
  <2> HIDE DEF r
  <2> QED
    BY <2>1
<1>3. ASSUME NEW k \in Nat, k \in K PROVE k + 1 \in K
  <2> SUFFICES ASSUME k + 1 <= FpBytes, r(k + 1).ok,
                      NEW m \in 0 .. k + 1
               PROVE  r(m).ok /\ \A i \in 1 .. m : r(m).bytes[i] = r(k + 1).bytes[i]
    OBVIOUS
  <2>1. k \in 0 .. FpBytes - 1 /\ Good(k)
    BY <1>1, <1>3
  <2>2. r(k).ok /\ \A i \in 1 .. k : r(k + 1).bytes[i] = r(k).bytes[i]
    BY <2>1, ReadingTurn
  <2> HIDE DEF r
  <2>3. CASE m = k + 1
    BY <2>3
  <2>4. CASE m \in 0 .. k
    <3>1. r(m).ok /\ \A i \in 1 .. m : r(m).bytes[i] = r(k).bytes[i]
      BY <2>1, <2>2, <2>4
    <3>2. \A i \in 1 .. m : i \in 1 .. k
      BY <2>4
    <3> QED
      BY <2>2, <3>1, <3>2
  <2> QED
    BY <2>3, <2>4
<1> HIDE DEF K
<1>4. Nat \subseteq K
  BY <1>2, <1>3, SetInduction
<1>5. n \in K
  BY <1>1, <1>4
<1> QED
  BY <1>1, <1>5 DEF K

\* Two characters write a byte exactly if the code reads it from them.
LEMMA ByteWritten ==
  ASSUME NEW c, NEW d, NEW byte
  PROVE  Writes(c, d, byte) <=>
           IsHex(c) /\ IsHex(d) /\ byte = 16 * Nibble(c) + Nibble(d)
<1>1. ASSUME Writes(c, d, byte)
      PROVE  IsHex(c) /\ IsHex(d) /\ byte = 16 * Nibble(c) + Nibble(d)
  <2>1. PICK high, low \in HexDigits :
           high[1] = c /\ low[1] = d /\ byte = 16 * high[2] + low[2]
    BY <1>1 DEF Writes
  <2>2. \A h \in HexDigits : IsHex(h[1]) /\ h[2] = Nibble(h[1])
    BY DEF HexDigits, IsHex, Nibble
  <2> QED
    BY <2>1, <2>2
<1>2. ASSUME IsHex(c), IsHex(d), byte = 16 * Nibble(c) + Nibble(d)
      PROVE  Writes(c, d, byte)
  <2>1. <<c, Nibble(c)>> \in HexDigits /\ <<d, Nibble(d)>> \in HexDigits
    BY <1>2 DEF HexDigits, IsHex, Nibble
  <2> QED
    BY <1>2, <2>1 DEF Writes
<1> QED
  BY <1>1, <1>2

\* A string that is read begins with a writing of the bytes read.
LEMMA ReadIsWriting ==
  ASSUME NEW fp \in Seq(Chars), Reading(fp)[FpBytes].ok
  PROVE  BeginsWithWriting(fp, Reading(fp)[FpBytes].bytes)
<1> DEFINE r(k) == Reading(fp)[k]
           last == r(FpBytes)
           p(k) == SkipSeparators(fp, r(k).pos)
           start == [i \in 1 .. FpBytes |-> p(i - 1)]
           from(i) == IF i = 1 THEN 1 ELSE start[i - 1] + 2
<1>1. FpBytes \in Nat \ {0} /\ Len(fp) \in Nat
  BY PeerCheckConstantsOK, LenProperties
<1>2. ASSUME NEW i \in 1 .. FpBytes
      PROVE  /\ p(i - 1) \in r(i - 1).pos .. Len(fp) - 1
             /\ r(i - 1).pos \in 1 .. Len(fp) + 1
             /\ \A k \in r(i - 1).pos .. p(i - 1) - 1 : IsSeparator(fp[k])
             /\ r(i).pos = p(i - 1) + 2
             /\ IsHex(fp[p(i - 1)]) /\ IsHex(fp[p(i - 1) + 1])
             /\ last.bytes[i] = 16 * Nibble(fp[p(i - 1)]) + Nibble(fp[p(i - 1) + 1])
  <2> DEFINE j == i - 1
  <2>1. j \in 0 .. FpBytes - 1 /\ j \in 0 .. FpBytes /\ j + 1 = i /\ i \in 0 .. FpBytes /\ i \in 1 .. i
        /\ FpBytes \in 0 .. FpBytes
    BY <1>1
  <2> HIDE DEF j
  <2>2. r(j).ok /\ r(i).ok /\ r(i).bytes[i] = last.bytes[i]
    BY <2>1, EarlierReadings
  <2>3. r(j).pos \in 1 .. Len(fp) + 1
    BY <2>1, <2>2, ReadingFacts
  <2>4. /\ IsHex(fp[p(j)]) /\ IsHex(fp[p(j) + 1])
    BY <2>1, <2>2, ReadingTurn
  <2>5. /\ p(j) \in r(j).pos .. Len(fp) - 1
        /\ \A k \in r(j).pos .. p(j) - 1 : IsSeparator(fp[k])
        /\ r(i).pos = p(j) + 2
    BY <2>1, <2>2, ReadingTurn
  <2>6. r(i).bytes[i] = 16 * Nibble(fp[p(j)]) + Nibble(fp[p(j) + 1])
    BY <2>1, <2>2, ReadingTurn
  <2> QED
    BY <2>2, <2>3, <2>4, <2>5, <2>6 DEF j
<1>3. r(0).pos = 1
  BY ReadingSteps DEF Started
<1> HIDE DEF r, p
<1>4. start \in [1 .. FpBytes -> 1 .. Len(fp) - 1]
  <2> SUFFICES ASSUME NEW i \in 1 .. FpBytes PROVE p(i - 1) \in 1 .. Len(fp) - 1
    OBVIOUS
  <2> DEFINE a == r(i - 1).pos
             b == p(i - 1)
  <2>1. a \in 1 .. Len(fp) + 1 /\ b \in a .. Len(fp) - 1
    BY <1>2
  <2> HIDE DEF a, b
  <2>2. b \in 1 .. Len(fp) - 1
    BY <1>1, <2>1
  <2> QED
    BY <2>2 DEF b
<1>5. \A i \in 1 .. FpBytes : start[i] = p(i - 1) /\ from(i) = r(i - 1).pos
  <2> TAKE i \in 1 .. FpBytes
  <2>1. CASE i = 1
    BY <1>3, <2>1
  <2>2. CASE i # 1
    <3>1. i - 1 \in 1 .. FpBytes
      BY <1>1, <2>2
    <3>2. start[i - 1] = p(i - 1 - 1) /\ r(i - 1).pos = p(i - 1 - 1) + 2
      BY <1>2, <3>1
    <3> QED
      BY <2>2, <3>2
  <2> QED
    BY <2>1, <2>2
<1> HIDE DEF start, from
<1>6. ASSUME NEW i \in 1 .. FpBytes
      PROVE  /\ start[i] >= from(i)
             /\ \A k \in from(i) .. start[i] - 1 : IsSeparator(fp[k])
             /\ IsHex(fp[start[i]]) /\ IsHex(fp[start[i] + 1])
             /\ last.bytes[i] = 16 * Nibble(fp[start[i]]) + Nibble(fp[start[i] + 1])
  <2>1. start[i] = p(i - 1) /\ from(i) = r(i - 1).pos
    BY <1>5
  <2>2. p(i - 1) >= r(i - 1).pos
    <3> DEFINE a == r(i - 1).pos
               b == p(i - 1)
    <3>1. a \in 1 .. Len(fp) + 1 /\ b \in a .. Len(fp) - 1
      BY <1>2
    <3> HIDE DEF a, b
    <3>2. b >= a
      BY <1>1, <3>1
    <3> QED
      BY <3>2 DEF a, b
  <2>3. /\ \A k \in r(i - 1).pos .. p(i - 1) - 1 : IsSeparator(fp[k])
        /\ IsHex(fp[p(i - 1)]) /\ IsHex(fp[p(i - 1) + 1])
        /\ last.bytes[i] = 16 * Nibble(fp[p(i - 1)]) + Nibble(fp[p(i - 1) + 1])
    BY <1>2
  <2> HIDE DEF last
  <2> QED
    BY <2>1, <2>2, <2>3
<1> HIDE DEF last
<1>7. ASSUME NEW i \in 1 .. FpBytes
      PROVE  /\ start[i] >= from(i)
             /\ \A k \in from(i) .. start[i] - 1 : fp[k] = ":"
             /\ Writes(fp[start[i]], fp[start[i] + 1], last.bytes[i])
  BY <1>6, ByteWritten DEF IsSeparator
<1>8. BeginsWithWriting(fp, last.bytes)
  BY <1>4, <1>7 DEF BeginsWithWriting, from
<1> QED
  BY <1>8 DEF last, r

\* A string that begins with a writing of bytes is read, and as these bytes.
LEMMA WritingIsRead ==
  ASSUME NEW fp \in Seq(Chars), NEW bytes \in [1 .. FpBytes -> Nat], BeginsWithWriting(fp, bytes)
  PROVE  Reading(fp)[FpBytes].ok /\ Reading(fp)[FpBytes].bytes = bytes
<1> DEFINE from(start, i) == IF i = 1 THEN 1 ELSE start[i - 1] + 2
           Written(start) == \A i \in 1 .. FpBytes :
             /\ start[i] >= from(start, i)
             /\ \A k \in from(start, i) .. start[i] - 1 : IsSeparator(fp[k])
             /\ IsHex(fp[start[i]]) /\ IsHex(fp[start[i] + 1])
             /\ bytes[i] = 16 * Nibble(fp[start[i]]) + Nibble(fp[start[i] + 1])
<1>1. FpBytes \in Nat \ {0} /\ Len(fp) \in Nat
  BY PeerCheckConstantsOK, LenProperties
<1>2. PICK start \in [1 .. FpBytes -> 1 .. Len(fp) - 1] : Written(start)
  <2>1. PICK start \in [1 .. FpBytes -> 1 .. Len(fp) - 1] : \A i \in 1 .. FpBytes :
          /\ start[i] >= from(start, i)
          /\ \A k \in from(start, i) .. start[i] - 1 : fp[k] = ":"
          /\ Writes(fp[start[i]], fp[start[i] + 1], bytes[i])
    BY DEF BeginsWithWriting
  <2>2. Written(start)
    BY <2>1, ByteWritten DEF IsSeparator
  <2> QED
    BY <2>2
<1> DEFINE r(k) == Reading(fp)[k]
           Good(k) == /\ r(k).ok
                      /\ r(k).pos = from(start, k + 1)
                      /\ \A i \in 1 .. k : r(k).bytes[i] = bytes[i]
           K == {k \in Nat : k <= FpBytes => Good(k)}
<1>3. 0 \in K
  BY ReadingSteps DEF Started
<1>4. ASSUME NEW k \in Nat, k \in K PROVE k + 1 \in K
  <2> SUFFICES ASSUME k + 1 <= FpBytes PROVE Good(k + 1)
    OBVIOUS
  <2> DEFINE i == k + 1
             p == SkipSeparators(fp, r(k).pos)
  <2>1. /\ k \in 0 .. FpBytes - 1 /\ k \in 0 .. FpBytes /\ i \in 1 .. FpBytes /\ Good(k)
        /\ i + 1 # 1 /\ (i + 1) - 1 = i
    BY <1>1, <1>4
  <2>2. r(k).ok /\ r(k).pos = from(start, i) /\ r(k).pos \in 1 .. Len(fp) + 1
    BY <2>1, ReadingFacts
  <2> HIDE DEF r
  <2>3. /\ start[i] \in 1 .. Len(fp) - 1 /\ start[i] >= r(k).pos
        /\ \A m \in r(k).pos .. start[i] - 1 : IsSeparator(fp[m])
        /\ IsHex(fp[start[i]]) /\ IsHex(fp[start[i] + 1])
        /\ bytes[i] = 16 * Nibble(fp[start[i]]) + Nibble(fp[start[i] + 1])
    BY <1>2, <2>1, <2>2
  <2> HIDE DEF i
  <2>4. /\ start[i] \in r(k).pos .. Len(fp) /\ ~IsSeparator(fp[start[i]])
        /\ start[i] < Len(fp)
    <3>1. ~IsSeparator(fp[start[i]])
      BY <2>3, HexIsNoSeparator
    <3>2. start[i] \in r(k).pos .. Len(fp) /\ start[i] < Len(fp)
      <4> DEFINE a == r(k).pos
                 b == start[i]
      <4>1. a \in 1 .. Len(fp) + 1 /\ b \in 1 .. Len(fp) - 1 /\ b >= a
        BY <2>2, <2>3
      <4> HIDE DEF a, b
      <4>2. b \in a .. Len(fp) /\ b < Len(fp)
        BY <1>1, <4>1
      <4> QED
        BY <4>2 DEF a, b
    <3> QED
      BY <3>1, <3>2
  <2>5. p = start[i]
    BY <2>2, <2>3, <2>4, SkipIsTheFirst
  <2>6. /\ r(i).ok /\ r(i).pos = start[i] + 2
        /\ r(i).bytes[i] = bytes[i]
        /\ \A m \in 1 .. k : r(i).bytes[m] = r(k).bytes[m]
    <3>0. r(k).ok /\ p < Len(fp) /\ IsHex(fp[p]) /\ IsHex(fp[p + 1])
      BY <2>2, <2>3, <2>4, <2>5
    <3>1. r(k + 1).ok
      BY <2>1, <3>0, ReadingTurn DEF r
    <3>2. /\ r(k + 1).pos = p + 2
          /\ \A m \in 1 .. k : r(k + 1).bytes[m] = r(k).bytes[m]
      BY <2>1, <3>1, ReadingTurn DEF r
    <3>3. r(k + 1).bytes[k + 1] = 16 * Nibble(fp[p]) + Nibble(fp[p + 1])
      BY <2>1, <3>1, ReadingTurn DEF r
    <3> QED
      BY <2>3, <2>5, <3>1, <3>2, <3>3 DEF i
  <2>7. from(start, i + 1) = start[i] + 2
    BY <2>1
  <2>8. \A m \in 1 .. i : r(i).bytes[m] = bytes[m]
    <3> TAKE m \in 1 .. i
    <3>1. m = i \/ m \in 1 .. k
      BY DEF i
    <3> QED
      BY <2>1, <2>6, <3>1
  <2> QED
    BY <2>6, <2>7, <2>8 DEF i
<1> HIDE DEF K
<1>5. Nat \subseteq K
  BY <1>3, <1>4, SetInduction
<1>6. FpBytes \in K
  BY <1>1, <1>5
<1>7. r(FpBytes).ok /\ \A i \in 1 .. FpBytes : r(FpBytes).bytes[i] = bytes[i]
  BY <1>1, <1>6 DEF K
<1>8. r(FpBytes).bytes \in Seq(Nat) /\ Len(r(FpBytes).bytes) = FpBytes
  BY <1>1, <1>7, ReadingFacts
<1> HIDE DEF r
<1>9. r(FpBytes).bytes = bytes
  <2>1. bytes \in Seq(Nat) /\ Len(bytes) = FpBytes
    <3>1. bytes \in Seq(Nat)
      BY <1>1, SeqDef
    <3> QED
      BY <1>1, <3>1, LenProperties
  <2> QED
    BY <1>7, <1>8, <2>1, SeqEqual
<1> QED
  BY <1>7, <1>9 DEF r

\* FingerprintIsRead() for every string, of any length.
LEMMA EveryStringIsRead ==
  ASSUME NEW fp \in Seq(Chars), NEW bytes \in [1 .. FpBytes -> Nat]
  PROVE  FingerprintIsRead(fp, bytes)
<1> DEFINE cert == [fingerprint |-> bytes, san |-> <<>>, cn |-> <<>>]
<1>1. Accepts(fp, NoName, cert) <=>
        Reading(fp)[FpBytes].ok /\ Reading(fp)[FpBytes].bytes = bytes
  BY DEF Accepts, FingerprintLocal
<1> QED
  BY <1>1, ReadIsWriting, WritingIsRead DEF FingerprintIsRead

\* PeerCheck!FingerprintsRead: verify_ssl_fingerprint() accepts exactly the
\* strings that begin with a writing of the certificate's fingerprint, of any
\* number of bytes.
THEOREM SSLFingerprintsRead == Spec => []FingerprintsRead
<1>1. ASSUME NEW fp \in Strings PROVE fp \in Seq(Chars)
  <2>1. PICK n \in 0 .. MaxFp : fp \in [1 .. n -> Chars]
    BY DEF Strings
  <2>2. n \in Nat
    BY PeerCheckConstantsOK
  <2> QED
    BY <2>1, <2>2, SeqDef
<1>2. AllAreRead
  BY <1>1, PeerCheckConstantsOK, EveryStringIsRead DEF AllAreRead
<1>3. FingerprintsRead
  BY <1>2 DEF FingerprintsRead
<1> QED
  BY <1>3, PTL

-----------------------------------------------------------------------------
(* Names of a certificate *)

\* What ToLower() keeps: the length, the texts, and no upper-case letter.
LEMMA LowerName ==
  ASSUME NEW n \in Names
  PROVE  /\ ToLower(n) \in Seq(Labels) /\ Len(ToLower(n)) = Len(n) /\ n # <<>>
         /\ Len(n) \in Nat /\ Len(n) >= 1 /\ n \in Seq(Labels)
         /\ DOMAIN n = 1 .. Len(n) /\ DOMAIN ToLower(n) = 1 .. Len(n)
         /\ \A i \in 1 .. Len(n) :
              /\ n[i] \in Labels
              /\ ToLower(n)[i] \in Labels
              /\ ToLower(n)[i].text = n[i].text
              /\ ToLower(n)[i].cased = FALSE
<1>1. n \in Seq(Labels) /\ n # <<>>
  BY DEF Names
<1>2. /\ Len(n) \in Nat /\ DOMAIN n = 1 .. Len(n) /\ n \in [1 .. Len(n) -> Labels] /\ Len(n) >= 1
  BY <1>1, LenProperties, EmptySeq
<1>3. \A i \in 1 .. Len(n) : n[i] \in Labels
  BY <1>2
<1>4. ASSUME NEW l \in Labels
      PROVE  /\ [text |-> l.text, cased |-> FALSE] \in Labels
             /\ [text |-> l.text, cased |-> FALSE].text = l.text
             /\ [text |-> l.text, cased |-> FALSE].cased = FALSE
  BY DEF Labels, Star
<1>5. ToLower(n) = [i \in 1 .. Len(n) |-> [text |-> n[i].text, cased |-> FALSE]]
  BY <1>2 DEF ToLower
<1>6. ToLower(n) \in [1 .. Len(n) -> Labels]
  BY <1>3, <1>4, <1>5
<1>7. ToLower(n) \in Seq(Labels)
  BY <1>2, <1>6, SeqDef
<1>8. Len(ToLower(n)) = Len(n) /\ DOMAIN ToLower(n) = 1 .. Len(n)
  BY <1>2, <1>6, <1>7, LenProperties
<1>9. \A i \in 1 .. Len(n) : ToLower(n)[i] = [text |-> n[i].text, cased |-> FALSE]
  BY <1>5
<1> QED
  BY <1>1, <1>2, <1>3, <1>4, <1>7, <1>8, <1>9

\* Two labels are the same when their texts are and neither is cased.
LEMMA SameLabel ==
  ASSUME NEW l \in Labels, NEW k \in Labels, l.text = k.text, l.cased = k.cased
  PROVE  l = k
BY DEF Labels

\* Names are the same in lower case if their labels have the same texts.
LEMMA SameName ==
  ASSUME NEW n \in Names, NEW m \in Names
  PROVE  ToLower(n) = ToLower(m) <=>
           Len(n) = Len(m) /\ \A i \in 1 .. Len(n) : n[i].text = m[i].text
<1>1. ASSUME ToLower(n) = ToLower(m)
      PROVE  Len(n) = Len(m) /\ \A i \in 1 .. Len(n) : n[i].text = m[i].text
  BY <1>1, LowerName
<1>2. ASSUME Len(n) = Len(m), \A i \in 1 .. Len(n) : n[i].text = m[i].text
      PROVE  ToLower(n) = ToLower(m)
  <2>1. \A i \in 1 .. Len(n) : ToLower(n)[i] = ToLower(m)[i]
    <3> TAKE i \in 1 .. Len(n)
    <3>1. /\ ToLower(n)[i] \in Labels /\ ToLower(m)[i] \in Labels
          /\ ToLower(n)[i].text = ToLower(m)[i].text
          /\ ToLower(n)[i].cased = ToLower(m)[i].cased
      BY <1>2, LowerName
    <3>2. QED
      BY <3>1, SameLabel
  <2>2. /\ ToLower(n) \in Seq(Labels) /\ ToLower(m) \in Seq(Labels)
        /\ Len(ToLower(n)) = Len(ToLower(m)) /\ Len(ToLower(n)) = Len(n)
    BY <1>2, LowerName
  <2>3. QED
    BY <2>1, <2>2, SeqEqual
<1> QED
  BY <1>1, <1>2

\* A tail: one element less, each at the place before.
LEMMA Tails ==
  ASSUME NEW s \in Seq(Labels), NEW t \in Seq(Labels), Len(s) > 1, Len(t) > 1
  PROVE  Tail(s) = Tail(t) <=> Len(s) = Len(t) /\ \A i \in 2 .. Len(s) : s[i] = t[i]
<1>1. /\ s # <<>> /\ t # <<>> /\ Len(s) \in Nat /\ Len(t) \in Nat
  BY EmptySeq, LenProperties
<1>2. /\ Tail(s) \in Seq(Labels) /\ Len(Tail(s)) = Len(s) - 1
      /\ \A i \in 1 .. Len(Tail(s)) : Tail(s)[i] = s[i + 1]
      /\ Tail(t) \in Seq(Labels) /\ Len(Tail(t)) = Len(t) - 1
      /\ \A i \in 1 .. Len(Tail(t)) : Tail(t)[i] = t[i + 1]
  BY <1>1, HeadTailProperties
<1>3. ASSUME Tail(s) = Tail(t)
      PROVE  Len(s) = Len(t) /\ \A i \in 2 .. Len(s) : s[i] = t[i]
  <2>1. Len(s) = Len(t)
    <3>1. Len(Tail(s)) = Len(Tail(t))
      BY <1>3, Zenon
    <3>2. Len(s) - 1 = Len(t) - 1
      BY <1>2, <3>1
    <3>3. QED
      BY <1>1, <3>2
  <2>2. ASSUME NEW i \in 2 .. Len(s) PROVE s[i] = t[i]
    <3>1. i - 1 \in 1 .. Len(Tail(s)) /\ (i - 1) + 1 = i
      BY <1>1, <1>2
    <3>2. Tail(s)[i - 1] = s[(i - 1) + 1] /\ Tail(t)[i - 1] = t[(i - 1) + 1]
      BY <1>2, <1>3, <3>1
    <3>3. QED
      BY <1>3, <3>1, <3>2
  <2>3. QED
    BY <2>1, <2>2
<1>4. ASSUME Len(s) = Len(t), \A i \in 2 .. Len(s) : s[i] = t[i]
      PROVE  Tail(s) = Tail(t)
  <2>1. \A i \in 1 .. Len(Tail(s)) : Tail(s)[i] = Tail(t)[i]
    BY <1>1, <1>2, <1>4
  <2>2. QED
    BY <1>2, <1>4, <2>1, SeqEqual
<1> QED
  BY <1>3, <1>4

\* matchName() on names in lower case, of a domain without wildcards: it
\* matches exactly the names that stand for the domain.
LEMMA MatchIsStandsFor ==
  ASSUME NEW d \in Names, \A i \in DOMAIN d : ~HasWildcard(d[i]), NEW n \in Names
  PROVE  MatchName(ToLower(n), ToLower(d)) <=> StandsFor(n, d)
<1> DEFINE m == ToLower(n)
           e == ToLower(d)
<1>1. /\ m \in Seq(Labels) /\ Len(m) = Len(n) /\ Len(n) \in Nat /\ Len(n) >= 1
      /\ e \in Seq(Labels) /\ Len(e) = Len(d) /\ Len(d) \in Nat /\ Len(d) >= 1
      /\ DOMAIN m = 1 .. Len(n) /\ DOMAIN d = 1 .. Len(d)
      /\ \A i \in 1 .. Len(n) : /\ n[i] \in Labels /\ m[i] \in Labels
                               /\ m[i].text = n[i].text /\ m[i].cased = FALSE
      /\ \A i \in 1 .. Len(d) : /\ d[i] \in Labels /\ e[i] \in Labels
                               /\ e[i].text = d[i].text /\ e[i].cased = FALSE
  BY LowerName
<1>2. m = e <=> Len(n) = Len(d) /\ \A i \in 1 .. Len(n) : n[i].text = d[i].text
  BY SameName
<1>3. \A i \in 1 .. Len(d) : ~HasWildcard(d[i])
  BY <1>1
<1>4. ASSUME NEW l \in Labels, NEW k \in Labels, l.text = k.text
      PROVE  HasWildcard(l) <=> HasWildcard(k)
  BY <1>4 DEF HasWildcard
<1>5. m[1] = Star <=> n[1] = Star
  <2>1. m[1].text = "*" <=> n[1].text = "*"
    BY <1>1
  <2>2. \A l \in Labels : l = Star <=> l.text = "*"
    BY DEF Labels, Star
  <2>3. QED
    BY <1>1, <2>1, <2>2
<1>6. ASSUME Len(n) > 1, Len(d) > 1
      PROVE  Tail(m) = Tail(e) <=>
               Len(n) = Len(d) /\ \A i \in 2 .. Len(n) : n[i].text = d[i].text
  <2>1. Tail(m) = Tail(e) <=> Len(m) = Len(e) /\ \A i \in 2 .. Len(m) : m[i] = e[i]
    BY <1>1, <1>6, Tails
  <2>2. ASSUME Len(n) = Len(d), NEW i \in 2 .. Len(n)
        PROVE  m[i] = e[i] <=> n[i].text = d[i].text
    <3>1. i \in 1 .. Len(n) /\ i \in 1 .. Len(d)
      BY <1>1, <2>2
    <3>0. /\ m[i] \in Labels /\ m[i].cased = FALSE
          /\ e[i] \in Labels /\ e[i].cased = FALSE
      BY <1>1, <3>1
    <3>2. m[i].text = e[i].text => m[i] = e[i]
      BY <3>0, SameLabel
    <3>3. m[i].text = n[i].text /\ e[i].text = d[i].text
      BY <1>1, <3>1
    <3>4. QED
      BY <3>2, <3>3
  <2>3. QED
    BY <1>1, <2>1, <2>2
<1> HIDE DEF m, e
<1>7. (\A i \in DOMAIN m : ~HasWildcard(m[i])) /\ m = e <=>
        Len(n) = Len(d) /\ \A i \in 1 .. Len(n) : n[i].text = d[i].text
  <2>1. ASSUME m = e PROVE \A i \in DOMAIN m : ~HasWildcard(m[i])
    <3> TAKE i \in DOMAIN m
    <3>1. i \in 1 .. Len(n) /\ i \in 1 .. Len(d)
      BY <1>1, <1>2, <2>1
    <3>2. m[i].text = d[i].text /\ m[i] \in Labels /\ d[i] \in Labels
      BY <1>1, <1>2, <2>1, <3>1
    <3>3. QED
      BY <1>3, <1>4, <3>1, <3>2
  <2>2. QED
    BY <1>2, <2>1
<1>8. MatchName(m, e) <=>
        \/ Len(n) = Len(d) /\ \A i \in 1 .. Len(n) : n[i].text = d[i].text
        \/ /\ n[1] = Star /\ Len(n) > 1 /\ Len(n) = Len(d)
           /\ \A i \in 2 .. Len(n) : n[i].text = d[i].text
  BY <1>1, <1>5, <1>6, <1>7 DEF MatchName
<1>9. StandsFor(n, d) <=>
        \/ Len(n) = Len(d) /\ \A i \in 1 .. Len(n) : n[i].text = d[i].text
        \/ /\ n[1] = Star /\ Len(n) > 1 /\ Len(n) = Len(d)
           /\ \A i \in 2 .. Len(n) : n[i].text = d[i].text
  <2> DEFINE same(i) == n[i].text = d[i].text
             star == n[1] = Star /\ Len(d) > 1
  <2>1. StandsFor(n, d) <=>
          Len(n) = Len(d) /\ \A i \in 1 .. Len(d) : same(i) \/ (i = 1 /\ n[i] = Star /\ Len(d) > 1)
    BY <1>1 DEF StandsFor
  <2>2. \A i \in 1 .. Len(d) : i = 1 /\ n[i] = Star /\ Len(d) > 1 <=> i = 1 /\ star
    OBVIOUS
  <2>3. /\ 1 \in 1 .. Len(d)
        /\ \A i \in 2 .. Len(d) : i \in 1 .. Len(d) /\ i # 1
        /\ \A i \in 1 .. Len(d) : i # 1 => i \in 2 .. Len(d)
    BY <1>1
  <2> HIDE DEF same, star
  <2>4. (\A i \in 1 .. Len(d) : same(i) \/ (i = 1 /\ star)) <=>
          (\A i \in 1 .. Len(d) : same(i)) \/ (star /\ \A i \in 2 .. Len(d) : same(i))
    BY <2>3
  <2>5. StandsFor(n, d) <=>
          Len(n) = Len(d) /\ ((\A i \in 1 .. Len(d) : same(i)) \/ (star /\ \A i \in 2 .. Len(d) : same(i)))
    BY <2>1, <2>2, <2>4
  <2>6. QED
    BY <2>5 DEF same, star
<1> QED
  BY <1>8, <1>9 DEF m, e

\* A name that matches a domain in lower case has no upper-case letters, so
\* that it makes no difference whether it is put into lower case.
LEMMA OnlyLowerMatches ==
  ASSUME NEW d \in Names, NEW n \in Names
  PROVE  MatchName(n, ToLower(d)) <=> n = ToLower(n) /\ MatchName(ToLower(n), ToLower(d))
<1> DEFINE e == ToLower(d)
<1>1. /\ n \in Seq(Labels) /\ Len(n) \in Nat /\ Len(n) >= 1
      /\ ToLower(n) \in Seq(Labels) /\ Len(ToLower(n)) = Len(n)
      /\ e \in Seq(Labels) /\ Len(e) = Len(d) /\ Len(d) \in Nat
      /\ \A i \in 1 .. Len(n) : /\ n[i] \in Labels /\ ToLower(n)[i] \in Labels
                               /\ ToLower(n)[i].text = n[i].text /\ ToLower(n)[i].cased = FALSE
      /\ \A i \in 1 .. Len(d) : e[i].cased = FALSE
  BY LowerName
<1> HIDE DEF e
<1>2. ASSUME \A i \in 1 .. Len(n) : n[i].cased = FALSE
      PROVE  n = ToLower(n)
  <2>1. \A i \in 1 .. Len(n) : n[i] = ToLower(n)[i]
    <3> TAKE i \in 1 .. Len(n)
    <3>1. /\ n[i] \in Labels /\ ToLower(n)[i] \in Labels
          /\ n[i].text = ToLower(n)[i].text /\ n[i].cased = ToLower(n)[i].cased
      BY <1>1, <1>2
    <3>2. QED
      BY <3>1, SameLabel
  <2>2. QED
    BY <1>1, <2>1, SeqEqual
<1>3. ASSUME n = e
      PROVE  n = ToLower(n)
  BY <1>1, <1>2, <1>3
<1>4. ASSUME n[1] = Star, Len(n) > 1, Len(e) > 1, Tail(n) = Tail(e)
      PROVE  n = ToLower(n)
  <2>1. Len(n) = Len(e) /\ \A i \in 2 .. Len(n) : n[i] = e[i]
    BY <1>1, <1>4, Tails
  <2>2. n[1].cased = FALSE
    BY <1>4 DEF Star
  <2>3. \A i \in 1 .. Len(n) : n[i].cased = FALSE
    BY <1>1, <2>1, <2>2
  <2>4. QED
    BY <1>2, <2>3
<1>5. MatchName(n, e) => n = ToLower(n)
  BY <1>3, <1>4 DEF MatchName
<1>6. CASE n = ToLower(n)
  BY <1>6, Zenon DEF e
<1> QED
  BY <1>5, <1>6 DEF e

\* NameIsFound() for every domain without wildcards and every certificate.
LEMMA EveryNameIsFound ==
  ASSUME NEW d \in Names, \A i \in DOMAIN d : ~HasWildcard(d[i]),
         NEW cert, Range(cert.san) \union Range(cert.cn) \subseteq Names
  PROVE  NameIsFound(d, cert)
<1>1. \A n \in Range(cert.san) : MatchName(ToLower(n), ToLower(d)) <=> StandsFor(n, d)
  BY MatchIsStandsFor
<1>2. \A n \in Range(cert.cn) :
        MatchName(n, ToLower(d)) <=> n = ToLower(n) /\ StandsFor(n, d)
  BY MatchIsStandsFor, OnlyLowerMatches
<1> QED
  BY <1>1, <1>2 DEF NameIsFound, HasName

\* PeerCheck!NamesMatch: verify_ssl_dn() takes the peer's certificate for one
\* with the domain exactly when a name of it stands for the domain, however
\* many labels they have and however many names the certificate.
THEOREM SSLNamesMatch == Spec => []NamesMatch
<1>1. AllAreFound
  BY PeerCheckConstantsOK, EveryNameIsFound DEF AllAreFound
<1>2. NamesMatch
  BY <1>1 DEF NamesMatch
<1> QED
  BY <1>2, PTL
=============================================================================

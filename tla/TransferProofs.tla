--------------------------- MODULE TransferProofs ---------------------------
(***************************************************************************)
(* The file transfer stores every file whole, for all sizes and all ways   *)
(* in which TCP cuts what is sent.                                         *)
(***************************************************************************)
EXTENDS FileTransfer, SequenceTheorems, TLAPS

-----------------------------------------------------------------------------
(* Sequences.                                                              *)

LEMMA Sent ==
    ASSUME NEW S, NEW s \in Seq(S), NEW x \in S
    PROVE  /\ s \o <<x>> \in Seq(S)
           /\ Len(s \o <<x>>) = Len(s) + 1
           /\ (s \o <<x>>)[Len(s) + 1] = x
           /\ \A i \in 1 .. Len(s) : (s \o <<x>>)[i] = s[i]
<1>1. <<x>> \in Seq(S) /\ Len(<<x>>) = 1 /\ <<x>>[1] = x
  OBVIOUS
<1>2. Len(s) \in Nat
  OBVIOUS
<1> QED
  BY <1>1, <1>2, ConcatProperties

LEMMA Received ==
    ASSUME NEW S, NEW s \in Seq(S), NEW n \in 0 .. Len(s)
    PROVE  /\ SubSeq(s, n + 1, Len(s)) \in Seq(S)
           /\ Len(SubSeq(s, n + 1, Len(s))) = Len(s) - n
           /\ \A i \in 1 .. (Len(s) - n) : SubSeq(s, n + 1, Len(s))[i] = s[n + i]
<1>1. Len(s) \in Nat /\ n \in Nat
  OBVIOUS
<1>2. SubSeq(s, n + 1, Len(s)) = [i \in 1 .. (Len(s) - n) |-> s[n + i]]
  BY <1>1
<1> QED
  BY <1>1, <1>2, SubSeqProperties

-----------------------------------------------------------------------------
(* The invariant. read_amount is 0 when a connection is accepted only for  *)
(* the first file, and that transfer goes through the phases below; after  *)
(* it read_amount is positive for good.                                    *)

TransferTypes ==
    /\ up \in Seq(Nat) /\ down \in Seq({"Acknowledged"})
    /\ size \in Nat /\ file_size \in Nat /\ read_amount \in Nat /\ start \in Nat

\* No connection.
Apart ==
    /\ client = "prompt" /\ server = "accept"
    /\ Len(up) = 0 /\ Len(down) = 0

\* The client is ahead: what it has sent is in the connection.
HeaderSent ==
    /\ size > 0 /\ Len(down) = 0
    /\ \/ client = "size" /\ Len(up) = 0
       \/ client = "name" /\ Len(up) = 1 /\ up[1] = size
       \/ client = "ready" /\ Len(up) = 2 /\ up[1] = size

\* The server has the size, and waits for the name or, when both came together,
\* for ever.
SizeKnown ==
    /\ size > 0 /\ file_size = size /\ Len(down) = 0 /\ read_amount = 0
    /\ \/ client = "name" /\ Len(up) = 0
       \/ client = "ready" /\ Len(up) \in {0, 1}

\* What was read is in the file, and what was sent and not read is in the
\* connection.
Reading ==
    /\ size > 0 /\ file_size = size /\ DOMAIN file = 0 .. 2 * size
    /\ \A p \in 0 .. (read_amount - 1) : file[p] = p + 1
    /\ \/ client = "ready" /\ read_amount = 0 /\ Len(up) = 0 /\ Len(down) = 1
       \/ client = "file" /\ read_amount = 0 /\ Len(up) = 0 /\ Len(down) = 0
       \/ /\ client = "done" /\ Len(down) = 0
          /\ read_amount + Len(up) = size
          /\ \A i \in 1 .. Len(up) : up[i] = read_amount + i

Stored ==
    /\ client = "done" /\ server = "accept"
    /\ read_amount = file_size /\ read_amount > 0
    /\ \A p \in 0 .. (file_size - 1) : file[p] = p + 1

Phase ==
    \/ connection = "none" /\ Apart
    \/ connection = "pending" /\ server = "accept" /\ HeaderSent
    \/ connection = "accepted" /\ server = "size" /\ HeaderSent /\ read_amount = 0
    \/ connection = "accepted" /\ server = "name" /\ SizeKnown
    \/ connection = "accepted" /\ server = "read" /\ Reading
    \/ connection = "closed" /\ Stored

TransferInv ==
    /\ TransferTypes
    /\ start # 0 => read_amount # 0
    /\ start = 0 => Phase

LEMMA InvImpliesStored == TransferInv => StoredWhole
BY DEF TransferInv, Phase, Stored, StoredWhole

LEMMA TransferInit == Init => TransferInv
<1> SUFFICES ASSUME Init PROVE TransferInv
  OBVIOUS
<1>1. TransferTypes
  BY TransferAssumption DEF Init, TransferTypes
<1> QED
  BY <1>1 DEF Init, TransferInv, Phase, Apart

-----------------------------------------------------------------------------
(* The client.                                                             *)

LEMMA ConnectStep ==
    ASSUME TransferInv, NEW n \in Sizes, connect(n)
    PROVE  TransferInv'
<1>1. n \in Nat /\ n > 0
  BY TransferAssumption
<1>2. TransferTypes'
  BY <1>1 DEF connect, server_vars, TransferInv, TransferTypes
<1>3. ASSUME start = 0
      PROVE  Phase'
  <2>1. connection = "none" /\ Apart
    BY <1>3 DEF TransferInv, Phase, HeaderSent, SizeKnown, Reading, Stored, connect, client_step
  <2> QED
    BY <1>1, <2>1 DEF Phase, Apart, HeaderSent, connect, client_step, server_vars
<1> QED
  BY <1>2, <1>3 DEF TransferInv, connect, server_vars

\* The two header blocks.
LEMMA HeaderStep ==
    ASSUME TransferInv, send_size \/ send_name
    PROVE  TransferInv'
<1> DEFINE x == IF client = "size" THEN size ELSE 0
<1>0. up \in Seq(Nat) /\ size \in Nat /\ Len(up) \in Nat
  BY DEF TransferInv, TransferTypes
<1>1. /\ up' = up \o <<x>> /\ client \in {"size", "name"}
      /\ client' = IF client = "size" THEN "name" ELSE "ready"
      /\ UNCHANGED <<connection, down, size, files, server, file_size, read_amount, file, start>>
  BY DEF send_size, send_name, client_sends, client_step, server_vars
<1>2. x \in Nat
  BY <1>0
<1> HIDE DEF x
<1>3. /\ up' \in Seq(Nat) /\ Len(up') = Len(up) + 1 /\ up'[Len(up) + 1] = x
      /\ \A i \in 1 .. Len(up) : up'[i] = up[i]
  BY <1>0, <1>1, <1>2, Sent
<1>4. TransferTypes'
  BY <1>1, <1>3 DEF TransferInv, TransferTypes
<1>5. ASSUME start = 0, client = "size"
      PROVE  Phase'
  <2>1. Len(up) = 0 /\ HeaderSent
    BY <1>5 DEF TransferInv, Phase, Apart, HeaderSent, SizeKnown, Reading, Stored
  <2>2. Len(up') = 1 /\ up'[1] = size
    BY <1>3, <1>5, <2>1 DEF x
  <2>3. HeaderSent'
    BY <1>1, <1>5, <2>1, <2>2 DEF HeaderSent
  <2>4. \/ connection = "pending" /\ server = "accept"
        \/ connection = "accepted" /\ server = "size" /\ read_amount = 0
    BY <1>5 DEF TransferInv, Phase, Apart, HeaderSent, SizeKnown, Reading, Stored
  <2> QED
    BY <1>1, <2>3, <2>4 DEF Phase
<1>6. ASSUME start = 0, client = "name"
      PROVE  Phase'
  <2>1. CASE HeaderSent
    <3>1. Len(up) = 1 /\ up[1] = size
      BY <1>6, <2>1 DEF HeaderSent
    <3>2. Len(up') = 2 /\ up'[1] = size
      BY <1>3, <3>1
    <3>3. HeaderSent'
      BY <1>1, <1>6, <2>1, <3>2 DEF HeaderSent
    <3>4. \/ connection = "pending" /\ server = "accept"
          \/ connection = "accepted" /\ server = "size" /\ read_amount = 0
          \/ connection = "accepted" /\ server = "name" /\ SizeKnown
      BY <1>6 DEF TransferInv, Phase, Apart, Reading, Stored
    <3>5. ~SizeKnown
      BY <1>6, <3>1 DEF SizeKnown
    <3> QED
      BY <1>1, <3>3, <3>4, <3>5 DEF Phase
  <2>2. CASE ~HeaderSent
    <3>1. connection = "accepted" /\ server = "name" /\ SizeKnown
      BY <1>6, <2>2 DEF TransferInv, Phase, Apart, Reading, Stored
    <3>2. Len(up) = 0
      BY <1>6, <3>1 DEF SizeKnown
    <3>3. Len(up') = 1
      BY <1>3, <3>2
    <3> QED
      BY <1>1, <1>6, <3>1, <3>3 DEF Phase, SizeKnown
  <2> QED
    BY <2>1, <2>2
<1> QED
  BY <1>1, <1>4, <1>5, <1>6 DEF TransferInv

LEMMA SendFileStep ==
    ASSUME TransferInv, send_file
    PROVE  TransferInv'
<1>0. up \in Seq(Nat) /\ size \in Nat
  BY DEF TransferInv, TransferTypes
<1>1. /\ up' = up \o content(size) /\ client = "file" /\ client' = "done"
      /\ UNCHANGED <<connection, down, size, files, server, file_size, read_amount, file, start>>
  BY DEF send_file, client_sends, client_step, server_vars
<1>2. content(size) \in Seq(Nat) /\ Len(content(size)) = size
  BY <1>0 DEF content
<1>3. /\ up' \in Seq(Nat)
      /\ Len(up') = Len(up) + size
      /\ Len(up) = 0 => \A i \in 1 .. size : up'[i] = content(size)[i]
  <2>1. Len(up) \in Nat
    BY <1>0
  <2> QED
    BY <1>0, <1>1, <1>2, <2>1, ConcatProperties
<1>4. TransferTypes'
  BY <1>1, <1>3 DEF TransferInv, TransferTypes
<1>5. ASSUME start = 0
      PROVE  Phase'
  <2>1. connection = "accepted" /\ server = "read" /\ Reading
    BY <1>1, <1>5 DEF TransferInv, Phase, Apart, HeaderSent, SizeKnown, Stored
  <2>2. read_amount = 0 /\ Len(up) = 0 /\ Len(down) = 0
    BY <1>1, <2>1 DEF Reading
  <2>3. Len(up') = size /\ \A i \in 1 .. size : up'[i] = i
    BY <1>0, <1>3, <2>2 DEF content
  <2>4. Reading'
    BY <1>0, <1>1, <2>1, <2>2, <2>3 DEF Reading
  <2> QED
    BY <1>1, <2>1, <2>4 DEF Phase
<1> QED
  BY <1>1, <1>4, <1>5 DEF TransferInv

\* The first ACK, and the last one with close.
LEMMA AckStep ==
    ASSUME TransferInv, NEW n \in 0 .. 2, recv_ready(n) \/ recv_done(n)
    PROVE  TransferInv'
<1>0. down \in Seq({"Acknowledged"}) /\ Len(down) \in Nat
  BY DEF TransferInv, TransferTypes
<1>1. CASE recv_ready(n)
  <2>1. /\ client = "ready" /\ client' = "file" /\ can_receive(n)
        /\ down' = SubSeq(down, n + 1, Len(down))
        /\ UNCHANGED <<connection, up, size, files, server, file_size, read_amount, file, start>>
    BY <1>1 DEF recv_ready, client_step, client_receives, server_vars
  <2>2. n \in 0 .. Len(down)
    BY <1>0, <2>1 DEF can_receive
  <2>3. down' \in Seq({"Acknowledged"}) /\ Len(down') = Len(down) - n
    BY <1>0, <2>1, <2>2, Received
  <2>4. TransferTypes'
    BY <2>1, <2>3 DEF TransferInv, TransferTypes
  <2>5. ASSUME start = 0
        PROVE  Phase'
    <3>1. Len(down) = 0 => connection = "closed"
      BY <1>0, <2>1 DEF can_receive
    <3>2. connection = "accepted" /\ server = "read" /\ Reading
      BY <2>1, <2>5, <3>1 DEF TransferInv, Phase, Apart, HeaderSent, SizeKnown, Stored
    <3>3. read_amount = 0 /\ Len(up) = 0 /\ Len(down) = 1
      BY <2>1, <3>2 DEF Reading
    <3>4. n = 1
      BY <1>0, <2>1, <3>2, <3>3 DEF can_receive
    <3>5. Reading'
      BY <2>1, <2>3, <3>2, <3>3, <3>4 DEF Reading
    <3> QED
      BY <2>1, <3>2, <3>5 DEF Phase
  <2> QED
    BY <2>1, <2>4, <2>5 DEF TransferInv
<1>2. CASE recv_done(n)
  <2>1. /\ client = "done" /\ client' = "prompt" /\ can_receive(n)
        /\ connection' = "none" /\ up' = <<>> /\ down' = <<>>
        /\ UNCHANGED <<size, files, server, file_size, read_amount, file, start>>
    BY <1>2 DEF recv_done, client_step, server_vars
  <2>2. TransferTypes'
    BY <2>1 DEF TransferInv, TransferTypes
  <2>3. ASSUME start = 0
        PROVE  Phase'
    <3>1. Len(down) = 0 => connection = "closed"
      BY <1>0, <2>1 DEF can_receive
    <3>2. Stored
      BY <2>1, <2>3, <3>1 DEF TransferInv, Phase, Apart, HeaderSent, SizeKnown, Reading
    <3> QED
      BY <2>1, <3>2 DEF Phase, Apart, Stored
  <2> QED
    BY <2>1, <2>2, <2>3 DEF TransferInv
<1> QED
  BY <1>1, <1>2

-----------------------------------------------------------------------------
(* The server.                                                             *)

LEMMA AcceptStep ==
    ASSUME TransferInv, accept
    PROVE  TransferInv'
<1>1. /\ connection = "pending" /\ connection' = "accepted"
      /\ server = "accept" /\ server' = "size" /\ start' = read_amount
      /\ UNCHANGED <<client, up, down, size, file_size, read_amount, file, files>>
  BY DEF accept, server_step
<1>2. TransferTypes'
  BY <1>1 DEF TransferInv, TransferTypes
<1>3. ASSUME read_amount = 0
      PROVE  Phase'
  <2>1. HeaderSent
    BY <1>1, <1>3 DEF TransferInv, Phase
  <2>2. HeaderSent'
    BY <1>1, <2>1 DEF HeaderSent
  <2> QED
    BY <1>1, <1>3, <2>2 DEF Phase
<1> QED
  BY <1>1, <1>2, <1>3 DEF TransferInv

LEMMA RecvSizeStep ==
    ASSUME TransferInv, NEW n \in 1 .. Len(up), recv_size(n)
    PROVE  TransferInv'
<1>0. up \in Seq(Nat) /\ Len(up) \in Nat /\ n \in 0 .. Len(up)
  BY DEF TransferInv, TransferTypes
<1>1. /\ server = "size" /\ server' = "name" /\ file_size' = up[1]
      /\ up' = SubSeq(up, n + 1, Len(up))
      /\ UNCHANGED <<client, connection, down, size, read_amount, file, start, files>>
  BY DEF recv_size, server_step, taken
<1>2. up' \in Seq(Nat) /\ Len(up') = Len(up) - n
  BY <1>0, <1>1, Received
<1>3. up[1] \in Nat
  BY <1>0
<1>4. TransferTypes'
  BY <1>1, <1>2, <1>3 DEF TransferInv, TransferTypes
<1>5. ASSUME start = 0
      PROVE  Phase'
  <2>1. connection = "accepted" /\ HeaderSent /\ read_amount = 0
    BY <1>1, <1>5 DEF TransferInv, Phase, Apart, Stored
  <2>2. SizeKnown'
    BY <1>0, <1>1, <1>2, <2>1 DEF HeaderSent, SizeKnown
  <2> QED
    BY <1>1, <2>1, <2>2 DEF Phase
<1> QED
  BY <1>1, <1>4, <1>5 DEF TransferInv

LEMMA RecvNameStep ==
    ASSUME TransferInv, recv_name
    PROVE  TransferInv'
<1>0. /\ up \in Seq(Nat) /\ Len(up) \in Nat
      /\ down \in Seq({"Acknowledged"}) /\ Len(down) \in Nat
  BY DEF TransferInv, TransferTypes
<1>1. /\ server = "name" /\ server' = "read" /\ up # <<>>
      /\ up' = SubSeq(up, 1 + 1, Len(up)) /\ file' = malloc(file_size)
      /\ down' = Append(down, "Acknowledged")
      /\ UNCHANGED <<client, connection, size, file_size, read_amount, start, files>>
  BY DEF recv_name, server_step, taken, send_ready
<1>2. 1 \in 0 .. Len(up)
  <2>1. Len(up) # 0
    BY <1>0, <1>1, EmptySeq
  <2> QED
    BY <1>0, <2>1
<1>3. up' \in Seq(Nat) /\ Len(up') = Len(up) - 1
  BY <1>0, <1>1, <1>2, Received
<1>4. down' \in Seq({"Acknowledged"}) /\ Len(down') = Len(down) + 1
  BY <1>0, <1>1
<1>5. TransferTypes'
  BY <1>1, <1>3, <1>4 DEF TransferInv, TransferTypes
<1>6. ASSUME start = 0
      PROVE  Phase'
  <2>1. connection = "accepted" /\ SizeKnown
    BY <1>1, <1>6 DEF TransferInv, Phase, Apart, Stored
  <2>2. client = "ready" /\ Len(up) = 1 /\ read_amount = 0 /\ Len(down) = 0
    BY <1>0, <1>2, <2>1 DEF SizeKnown
  <2>3. DOMAIN file' = 0 .. 2 * file_size
    BY <1>1 DEF malloc
  <2>4. Reading'
    BY <1>1, <1>3, <1>4, <2>1, <2>2, <2>3 DEF SizeKnown, Reading
  <2> QED
    BY <1>1, <2>1, <2>4 DEF Phase
<1> QED
  BY <1>1, <1>5, <1>6 DEF TransferInv

\* A part of the file, of any size, goes behind what was read before.
LEMMA ReadStep ==
    ASSUME TransferInv, NEW n \in 1 .. Len(up), read(n)
    PROVE  TransferInv'
<1>0. /\ up \in Seq(Nat) /\ Len(up) \in Nat /\ n \in Nat \ {0} /\ n \in 0 .. Len(up)
      /\ read_amount \in Nat /\ size \in Nat
  BY DEF TransferInv, TransferTypes
<1>1. /\ server = "read" /\ up' = SubSeq(up, n + 1, Len(up))
      /\ file' = [p \in DOMAIN file |->
                     IF p \in read_amount .. (read_amount + n - 1)
                     THEN up[p - read_amount + 1] ELSE file[p]]
      /\ read_amount' = read_amount + n
      /\ UNCHANGED <<client, server, connection, down, size, file_size, start, files>>
  BY DEF read, taken, read_to
<1>2. /\ up' \in Seq(Nat) /\ Len(up') = Len(up) - n
      /\ \A i \in 1 .. (Len(up) - n) : up'[i] = up[n + i]
  BY <1>0, <1>1, Received
<1>3. TransferTypes' /\ read_amount' # 0
  BY <1>0, <1>1, <1>2 DEF TransferInv, TransferTypes
<1>4. ASSUME start = 0
      PROVE  Phase'
  <2>1. connection = "accepted" /\ Reading
    BY <1>1, <1>4 DEF TransferInv, Phase, Apart, Stored
  <2>2. /\ client = "done" /\ Len(down) = 0 /\ read_amount + Len(up) = size
        /\ \A i \in 1 .. Len(up) : up[i] = read_amount + i
    BY <1>0, <2>1 DEF Reading
  <2>3. \A p \in 0 .. (read_amount' - 1) : file'[p] = p + 1
    <3> TAKE p \in 0 .. (read_amount' - 1)
    <3>1. p \in DOMAIN file
      BY <1>0, <1>1, <2>1, <2>2 DEF Reading
    <3>2. CASE p < read_amount
      BY <1>0, <1>1, <2>1, <3>1, <3>2 DEF Reading
    <3>3. CASE p >= read_amount
      <4>1. p - read_amount + 1 \in 1 .. Len(up) /\ p \in read_amount .. (read_amount + n - 1)
        BY <1>0, <1>1, <3>3
      <4>2. file'[p] = up[p - read_amount + 1]
        BY <1>1, <3>1, <4>1
      <4> QED
        BY <1>0, <2>2, <4>1, <4>2
    <3> QED
      BY <1>0, <3>2, <3>3
  <2>4. read_amount' + Len(up') = size
    <3>1. read_amount' = read_amount + n
      BY <1>1
    <3>2. Len(up') = Len(up) - n
      BY <1>2
    <3>3. PICK k \in Nat : k = Len(up) /\ read_amount + k = size
      BY <1>0, <2>2
    <3>4. Len(up') = k - n
      BY <3>2, <3>3
    <3>5. (read_amount + n) + (k - n) = read_amount + k
      BY <1>0, <3>3
    <3> QED
      BY <3>1, <3>3, <3>4, <3>5
  <2>5. \A i \in 1 .. Len(up') : up'[i] = read_amount' + i
    BY <1>0, <1>1, <1>2, <2>2
  <2>6. DOMAIN file' = DOMAIN file
    BY <1>1
  <2>7. Reading'
    BY <1>1, <2>1, <2>2, <2>3, <2>4, <2>5, <2>6 DEF Reading
  <2> QED
    BY <1>1, <2>1, <2>7 DEF Phase
<1> QED
  BY <1>1, <1>3, <1>4 DEF TransferInv

LEMMA FwriteStep ==
    ASSUME TransferInv, fwrite
    PROVE  TransferInv'
<1>0. /\ up \in Seq(Nat) /\ Len(up) \in Nat /\ read_amount \in Nat /\ size \in Nat
      /\ down \in Seq({"Acknowledged"})
  BY DEF TransferInv, TransferTypes
<1>1. /\ server = "read" /\ server' = "accept" /\ read_amount >= file_size
      /\ down' = Append(down, "Acknowledged") /\ connection' = "closed"
      /\ UNCHANGED <<client, up, size, file_size, read_amount, file, start, files>>
  BY DEF fwrite, server_step
<1>2. down' \in Seq({"Acknowledged"})
  BY <1>0, <1>1
<1>3. TransferTypes'
  BY <1>1, <1>2 DEF TransferInv, TransferTypes
<1>4. ASSUME start = 0
      PROVE  Phase'
  <2>1. Reading
    BY <1>1, <1>4 DEF TransferInv, Phase, Apart, Stored
  <2>2. client = "done" /\ read_amount = file_size /\ read_amount > 0
    BY <1>0, <1>1, <2>1 DEF Reading
  <2>3. Stored'
    BY <1>1, <2>1, <2>2 DEF Reading, Stored
  <2> QED
    BY <1>1, <2>3 DEF Phase
<1> QED
  BY <1>1, <1>3, <1>4 DEF TransferInv

-----------------------------------------------------------------------------

LEMMA TransferNext == TransferInv /\ [Next]_vars => TransferInv'
<1> SUFFICES ASSUME TransferInv, [Next]_vars PROVE TransferInv'
  OBVIOUS
<1>1. CASE Next
  BY <1>1, ConnectStep, HeaderStep, SendFileStep, AckStep, AcceptStep, RecvSizeStep,
     RecvNameStep, ReadStep, FwriteStep DEF Next, client_next, server_next
<1>2. CASE UNCHANGED vars
  BY <1>2 DEF vars, TransferInv, TransferTypes, Phase, Apart, HeaderSent, SizeKnown,
              Reading, Stored
<1> QED
  BY <1>1, <1>2

\* net_input_thread stores a file of any size whole, however TCP cuts it into
\* pieces, when read_amount was 0 as its connection was accepted; the condition
\* is needed because read_amount is neither initialised nor reset.
THEOREM StoredCorrect == Spec => []StoredWhole
<1>1. Spec => []TransferInv
  BY TransferInit, TransferNext, PTL DEF Spec
<1> QED
  BY <1>1, InvImpliesStored, PTL
=============================================================================

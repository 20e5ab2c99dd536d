---------------------------- MODULE FileTransfer ----------------------------
(***************************************************************************)
(* The file transfer of command_infrastructure.c with which the routes are *)
(* measured: the loop of main at the sending node, net_input_thread at the *)
(* receiving one, and the TCP connection between them. TCP keeps the order *)
(* of the bytes but not the borders of the messages: a recv returns        *)
(* whatever part of the sent bytes has arrived. The blocks before the file *)
(* (30 bytes for the size, then the name) fit into one recv together; that *)
(* one block is torn is left out.                                          *)
(***************************************************************************)
EXTENDS Naturals, Sequences

CONSTANTS
    Sizes,          \* of the files the user names
    Leftover,       \* what read_amount, which is not initialised, may hold
    MaxFiles        \* bound: files sent

ASSUME TransferAssumption ==
    /\ Sizes \subseteq Nat \ {0} /\ Leftover \subseteq Nat /\ MaxFiles \in Nat

VARIABLES
    client,         \* the statement of main's loop that comes next
    server,         \* the statement of net_input_thread's loop that comes next
    connection,     \* "none", "pending", "accepted" or, by the server, "closed"
    up, down,       \* bytes on their way to the server, and its ACKs
    size,           \* file_size of the client
    file_size, read_amount, file,   \* locals of the server
    start,          \* read_amount when the connection was accepted
    files           \* files the user has named

vars == <<client, server, connection, up, down, size, file_size, read_amount,
          file, start, files>>
server_vars == <<server, file_size, read_amount, file, start>>

\* The position of a byte in the file is all that matters of it.
content(n) == [i \in 1 .. n |-> i]

\* What malloc returns, with the memory behind it: no byte of the file.
malloc(n) == [p \in 0 .. 2 * n |-> 0]

Init ==
    /\ client = "prompt" /\ server = "accept" /\ connection = "none"
    /\ up = <<>> /\ down = <<>>
    /\ size = 0 /\ file_size = 0 /\ files = 0
    /\ read_amount \in Leftover /\ start = 0
    /\ file = <<>>

-----------------------------------------------------------------------------
(* main, lines 93 to 135.                                                  *)

client_step(from, to) == client = from /\ client' = to

\* The user names a file; connect is repeated until it succeeds.
connect(n) ==
    /\ files < MaxFiles
    /\ client_step("prompt", "size")
    /\ connection' = "pending" /\ size' = n /\ files' = files + 1
    /\ UNCHANGED <<up, down, server_vars>>

client_sends(from, to, blocks) ==
    /\ client_step(from, to)
    /\ up' = up \o blocks
    /\ UNCHANGED <<connection, down, size, files, server_vars>>

send_size == client_sends("size", "name", <<size>>)

send_name == client_sends("name", "ready", <<0>>)

send_file == client_sends("file", "done", content(size))

\* recv of an ACK: one ACK, both, or the end of the connection.
client_receives(n) == down' = SubSeq(down, n + 1, Len(down))

can_receive(n) == n \in 1 .. Len(down) \/ (n = 0 /\ down = <<>> /\ connection = "closed")

recv_ready(n) ==
    /\ client_step("ready", "file")
    /\ can_receive(n) /\ client_receives(n)
    /\ UNCHANGED <<connection, up, size, files, server_vars>>

\* The last ACK, and close.
recv_done(n) ==
    /\ client_step("done", "prompt")
    /\ can_receive(n)
    /\ connection' = "none" /\ up' = <<>> /\ down' = <<>>
    /\ UNCHANGED <<size, files, server_vars>>

-----------------------------------------------------------------------------
(* net_input_thread, lines 189 to 206.                                     *)

server_step(from, to) == server = from /\ server' = to

\* Bytes that arrived are taken from the connection.
taken(n) == up' = SubSeq(up, n + 1, Len(up))

accept ==
    /\ server_step("accept", "size")
    /\ connection = "pending" /\ connection' = "accepted"
    /\ start' = read_amount
    /\ UNCHANGED <<client, up, down, size, file_size, read_amount, file, files>>

\* The size, and the name with it when that has arrived too.
recv_size(n) ==
    /\ server_step("size", "name")
    /\ n \in 1 .. Len(up) /\ taken(n)
    /\ file_size' = up[1]
    /\ UNCHANGED <<client, connection, down, size, read_amount, file, start, files>>

\* Wrong on purpose: the client is not told to go on.
no_ack(acks) == acks

send_ready(acks) == Append(acks, "Acknowledged")

\* The name, then malloc and the ACK.
recv_name ==
    /\ server_step("name", "read")
    /\ up # <<>> /\ taken(1)
    /\ file' = malloc(file_size)
    /\ down' = send_ready(down)
    /\ UNCHANGED <<client, connection, size, file_size, read_amount, start, files>>

\* Wrong on purpose: each read fills the file from its beginning.
read_to_front(n) == [p \in DOMAIN file |-> IF p \in 0 .. (n - 1) THEN up[p + 1] ELSE file[p]]

\* n bytes at &file[read_amount].
read_to(n) ==
    [p \in DOMAIN file |->
        IF p \in read_amount .. (read_amount + n - 1)
        THEN up[p - read_amount + 1] ELSE file[p]]

read(n) ==
    /\ server = "read" /\ read_amount < file_size
    /\ n \in 1 .. file_size /\ n <= Len(up) /\ taken(n)
    /\ file' = read_to(n)
    /\ read_amount' = read_amount + n
    /\ UNCHANGED <<client, server, connection, down, size, file_size, start, files>>

\* fwrite, the second ACK and close.
fwrite ==
    /\ server_step("read", "accept")
    /\ read_amount >= file_size
    /\ down' = Append(down, "Acknowledged")
    /\ connection' = "closed"
    /\ UNCHANGED <<client, up, size, file_size, read_amount, file, start, files>>

-----------------------------------------------------------------------------
client_next ==
    \/ send_size \/ send_name \/ send_file
    \/ \E n \in 0 .. 2 : recv_ready(n) \/ recv_done(n)

server_next ==
    \/ accept \/ recv_name \/ fwrite
    \/ \E n \in 1 .. Len(up) : recv_size(n) \/ read(n)

Next == (\E n \in Sizes : connect(n)) \/ client_next \/ server_next

\* Both programs go on when they can; the user need not name a file.
Spec == Init /\ [][Next]_vars /\ WF_vars(client_next) /\ WF_vars(server_next)

-----------------------------------------------------------------------------
\* A file is stored whole, with nothing written beyond it, however TCP cuts it
\* into pieces, if read_amount was 0 when its connection was accepted.
StoredWhole ==
    connection = "closed" /\ start = 0 =>
        /\ read_amount = file_size
        /\ \A p \in 0 .. (file_size - 1) : file[p] = p + 1

\* The size and the name came with one recv: the server waits for the name and
\* the client for the ACK.
merged == server = "name" /\ client = "ready" /\ up = <<>>

\* The loop of main gets to its next file: the transfer ends even when the
\* server leaves the file in the connection, unless size and name were merged.
TransferEnds == client = "ready" ~> (client = "prompt" \/ merged)
=============================================================================

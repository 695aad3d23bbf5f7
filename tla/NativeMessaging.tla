-------------------------- MODULE NativeMessaging ---------------------------
(***************************************************************************)
(* gpgme-json as a native messaging host and its clients.  The process     *)
(* reads one request at a time, answers it (process_request), and keeps a  *)
(* reply that is longer than the client's chunk size for later getmore     *)
(* requests (encode_and_chunk, op_getmore).  gpgme.js opens a process for  *)
(* each message, collects the pieces of the reply and decodes them         *)
(* (Connection.js, Message.js); any other client may send what it likes to *)
(* one process.                                                            *)
(***************************************************************************)
EXTENDS JsonOps, SequencesExt

CONSTANTS
  Clients,       \* subset of {"js", "any"}
  JsPosts,       \* the requests of gpgme.js, each with its chunk size
  AnySends,      \* the messages of another client: kind, request, chunk size
  Lengths,       \* lengths of a printed reply, by chunk size
  MaxPosts,      \* bound on the requests, by kind of client
  SizeMod        \* size_t is computed modulo this

Absent == -1000            \* no "chunksize" in the request
NotANumber == -1001

VARIABLES
  client,     \* which client it is
  ctxs,       \* the static contexts of get_context
  pending,    \* pending_data, with the request whose reply it is
  last,       \* ghost: the request at hand and the engine call that was made
  wire,       \* the message under way
  phase,      \* the client: "idle" or "waiting"
  collected,  \* the pieces that it has
  outcome,    \* what the last post came to
  sent,       \* ghost: the pieces that the process has sent
  posts

vars == <<client, ctxs, pending, last, wire, phase, collected, outcome, sent, posts>>

NoReply == Reply(None, {})
NoPending == [id |-> 0, length |-> 0, written |-> 0, reply |-> NoReply]
NoWire == [to |-> None]
NoRequest == [op |-> None]
NothingYet == [r |-> NoRequest, used |-> NoCall, chunk |-> Absent]

Init ==
  /\ client \in Clients
  /\ ctxs = [p \in {} |-> 0] /\ pending = NoPending /\ last = NothingYet
  /\ wire = NoWire /\ phase = "idle" /\ collected = <<>> /\ outcome = None
  /\ sent = <<>> /\ posts = 0

-----------------------------------------------------------------------------
\* The chunk size of a request; sizes that are too small or too large are
\* replaced, a negative number is a huge size_t.
MIN_REPLY_CHUNK_SIZE == 30
MAX_REPLY_CHUNK_SIZE == 10 * 1024 * 1024
get_chunksize(c) ==
  IF c = Absent THEN 0
  ELSE IF c >= 0 /\ c < MIN_REPLY_CHUNK_SIZE THEN MIN_REPLY_CHUNK_SIZE
  ELSE IF c < 0 \/ c > MAX_REPLY_CHUNK_SIZE THEN MAX_REPLY_CHUNK_SIZE ELSE c

\* A reply on the wire: its properties, and for a piece of a longer reply
\* whose it is, where it starts and how long it is.
Plain(reply) == [to |-> "client", chunk |-> FALSE, reply |-> reply]
Piece(reply, id, from, n, more) ==
  [to |-> "client", chunk |-> TRUE, reply |-> reply, id |-> id, from |-> from, n |-> n,
   more |-> more]

\* The length of a piece as it is printed: the frame is 41 characters with
\* "more":true and 42 with "more":false, three octets are four characters.
PrintedLength(w) == (IF w.more THEN 41 ELSE 42) + 4 * ((w.n + 2) \div 3)

\* 41 octets are for the frame, the rest holds base64.  The buffer is freed
\* with its last piece.
op_getmore(p, c) ==
  LET size == (((c - 41) % SizeMod) \div 4) * 3
      rest == p.length - p.written
      n == IF rest > size THEN size ELSE rest
  IN IF p.id = 0 THEN [pending |-> p, wire |-> Plain(error_object_v)]
     ELSE [pending |-> IF p.written + n >= p.length THEN NoPending
                       ELSE [p EXCEPT !.written = @ + n],
           wire |-> Piece(p.reply, p.id, p.written, n, rest > size)]

\* Without a chunk size the reply goes out as it is, and what is pending
\* stays; otherwise its first piece does.
encode_and_chunk(p, id, c, length, reply) ==
  IF c = NotANumber THEN [pending |-> p, wire |-> Plain(error_object_v)]
  ELSE IF get_chunksize(c) = 0 THEN [pending |-> p, wire |-> Plain(reply)]
  ELSE op_getmore([id |-> id, length |-> length, written |-> 0, reply |-> reply], get_chunksize(c))

Send(result) ==
  /\ pending' = result.pending /\ wire' = result.wire
  /\ sent' = IF result.wire.chunk
             THEN Append(sent, [id |-> result.wire.id, from |-> result.wire.from,
                                n |-> result.wire.n])
             ELSE sent

\* process_request: a command discards what is pending.
process_request ==
  /\ wire.to = "host" /\ wire.kind = "command"
  /\ \E o \in handler(wire.r, ctxs), length \in Lengths[wire.chunk] :
       /\ ctxs' = o.ctxs /\ last' = [r |-> wire.r, used |-> o.used, chunk |-> wire.chunk]
       /\ Send(encode_and_chunk(NoPending, posts, wire.chunk, length, o.reply))
  /\ UNCHANGED <<client, phase, collected, outcome, posts>>

\* Help on a command, an unknown command, a missing "op": answered without a
\* handler, and what is pending is not discarded.
ProcessOther ==
  /\ wire.to = "host" /\ wire.kind = "other"
  /\ \E length \in Lengths[wire.chunk], reply \in {error_object_v, Reply("help", {"type", "op", "msg"})} :
       Send(encode_and_chunk(pending, posts, wire.chunk, length, reply))
  /\ UNCHANGED <<client, ctxs, last, phase, collected, outcome, posts>>

\* What is not JSON is answered without chunks.
ProcessInvalid ==
  /\ wire.to = "host" /\ wire.kind = "invalid"
  /\ wire' = Plain(error_object_v)
  /\ UNCHANGED <<client, ctxs, pending, last, phase, collected, outcome, sent, posts>>

ProcessGetmore ==
  /\ wire.to = "host" /\ wire.kind = "getmore"
  /\ IF wire.chunk = NotANumber
     THEN /\ wire' = Plain(error_object_v) /\ UNCHANGED <<pending, sent>>
     ELSE Send(op_getmore(pending, get_chunksize(wire.chunk)))
  /\ UNCHANGED <<client, ctxs, last, phase, collected, outcome, posts>>

\* native_messaging_repl: a request that is too long, or a read or write
\* error, ends the process.
HostEnds ==
  /\ wire.to = "host" /\ wire' = [to |-> "nobody"]
  /\ UNCHANGED <<client, ctxs, pending, last, phase, collected, outcome, sent, posts>>

-----------------------------------------------------------------------------
ToHost(kind, r, chunk) == [to |-> "host", kind |-> kind, r |-> r, chunk |-> chunk]

\* GPGME_Message.setParameter checks the types, so that gpgme.js sends a
\* malformed argument only where its table has the wrong type; but data may
\* not be what it is said to be.
setParameter(r) ==
  /\ r.op \in DOMAIN permittedOperations
  /\ r.bad \in {None, "data"} \/ (r.bad = "flag" /\ Mistyped(r.op) # {})

\* The setter of GPGME_Message takes no other size; without one it is 1023 KB.
chunksize(c) == c > 10 * 1024 /\ c <= 1024 * 1024

\* Connection.post: each message has its own process.
Post(r, chunk) ==
  /\ client = "js" /\ phase = "idle" /\ posts < MaxPosts["js"]
  /\ setParameter(r) /\ chunksize(chunk)
  /\ ctxs' = [p \in {} |-> 0] /\ pending' = NoPending /\ sent' = <<>>
  /\ last' = NothingYet
  /\ wire' = ToHost("command", r, chunk)
  /\ phase' = "waiting" /\ collected' = <<>> /\ outcome' = None /\ posts' = posts + 1
  /\ UNCHANGED client

\* Answer.getMessage, and what the caller makes of the objects in the answer.
getMessage(op, reply) ==
  IF reply.props = {} THEN "unexpected"
  ELSE IF reply.type = "error" THEN "gnupg error"
  ELSE IF /\ reply.type # None => reply.type \in permittedOperations[op].types
          /\ \A p \in reply.props \ {"type", "base64", "msg"} :
               LET a == permittedOperations[op]
               IN \/ p \in DOMAIN a.payload /\ a.payload[p] = replies[op][p]
                  \/ p \in DOMAIN a.info /\ a.info[p] = replies[op][p]
          /\ op = "keylist" => Admits(validKeyProperties, key_to_json)
          /\ op \in {"verify", "decrypt"} /\ "info" \in reply.props =>
               /\ Admits(expKeys, signature_to_json) /\ Admits(expSum, sigsum_to_json)
               /\ Admits(expNote, sig_notation_to_json)
       THEN "resolved" ELSE "unexpected"

Collected == Append(collected, [id |-> wire.id, from |-> wire.from, n |-> wire.n])

\* The listener of Connection.post.
Listen ==
  /\ client = "js" /\ phase = "waiting" /\ wire.to = "client"
  /\ IF ~wire.chunk
     THEN /\ phase' = "idle" /\ outcome' = "unexpected" /\ wire' = NoWire
          /\ UNCHANGED collected
     ELSE /\ collected' = Collected
          /\ IF wire.more
             THEN /\ wire' = ToHost("getmore", NoRequest, last.chunk)
                  /\ UNCHANGED <<phase, outcome>>
             ELSE /\ phase' = "idle" /\ wire' = NoWire
                  /\ outcome' = getMessage(last.r.op, wire.reply)
  /\ UNCHANGED <<client, ctxs, pending, last, sent, posts>>

\* Another client sends a command, help, something else or getmore, as it
\* likes, to the one process.
SendAny(kind, r, chunk) ==
  /\ client = "any" /\ phase = "idle" /\ posts < MaxPosts["any"]
  /\ wire' = ToHost(kind, r, chunk) /\ phase' = "waiting" /\ posts' = posts + 1
  /\ UNCHANGED <<client, ctxs, pending, last, collected, outcome, sent>>

ReceiveAny ==
  /\ client = "any" /\ phase = "waiting" /\ wire.to = "client"
  /\ phase' = "idle" /\ wire' = NoWire
  /\ UNCHANGED <<client, ctxs, pending, last, collected, outcome, sent, posts>>

Host == process_request \/ ProcessOther \/ ProcessInvalid \/ ProcessGetmore

Next ==
  \/ Host \/ HostEnds \/ Listen \/ ReceiveAny
  \/ \E m \in JsPosts : Post(m[1], m[2])
  \/ \E m \in AnySends : SendAny(m[1], m[2], m[3])

Spec == Init /\ [][Next]_vars

\* The process answers and the browser delivers.
Fairness == WF_vars(Host) /\ WF_vars(Listen)

FairSpec == Spec /\ Fairness

-----------------------------------------------------------------------------
\* The pieces that leave the process are in order: one that does not start a
\* reply goes on where the piece before it ended, in the same reply, whatever
\* requests came in between (pending_data, static in gpgme-json.c).
PiecesInOrder ==
  \A i \in 1..Len(sent) : sent[i].from > 0 =>
    /\ i > 1 /\ sent[i - 1].id = sent[i].id /\ sent[i - 1].from + sent[i - 1].n = sent[i].from

\* The contexts of get_context outlive a request, and still an engine call
\* runs with the settings of its own request: signing keys that the request
\* names, its armor flag, its listing mode.  A sender is the one of the
\* request, or one that an earlier "sign" left (op_sign does not reset it).
RequestsIsolated ==
  LET r == last.r  u == last.used IN
  u.call # None =>
    /\ u.call \in {"encrypt", "encrypt_sign"} => u.signers \subseteq r.signing /\ u.armor = r.armor
    /\ u.call = "sign" => u.signers \subseteq r.keys /\ u.armor = r.armor
    /\ u.call = "export" => u.armor = r.armor
    /\ u.call = "keylist" => u.mode = IF r.modes = {} THEN {"local"} ELSE r.modes
    /\ u.call \in {"encrypt", "encrypt_sign", "sign"} /\ r.sender # None => u.sender = r.sender

\* What gpgme.js decodes is the whole reply to its own request: the pieces,
\* joined as base64 text before they are decoded, are all of it in order and
\* none but the last needs padding; and no message to the browser is longer
\* than the 1 MB that it accepts (Connection.js, Message.js).
AnswerWhole ==
  /\ client = "js" /\ outcome \notin {None, "unexpected"} =>
       /\ collected # <<>> /\ collected[1].from = 0
       /\ \A i \in 1..Len(collected) :
            /\ collected[i].id = posts
            /\ i < Len(collected) =>
                 /\ collected[i].n % 3 = 0
                 /\ collected[i + 1].from = collected[i].from + collected[i].n
       /\ pending.id = 0
  /\ client = "js" /\ wire.to = "client" /\ wire.chunk => PrintedLength(wire) <= 1024 * 1024

\* gpgme-json reads every parameter that gpgme.js lets its callers set, and
\* with its type; but no-encrypt-to is a flag there and names here.
ParametersRead ==
  phase = "waiting" /\ client = "js" /\ wire.to = "host" /\ wire.kind = "command" =>
    /\ DOMAIN permittedOperations[wire.r.op].parameters \subseteq DOMAIN arguments[wire.r.op]
    /\ Mistyped(wire.r.op) \subseteq {"no-encrypt-to"}

\* gpgme.js understands every reply to the requests that it sends but the
\* empty one, which config_opt gives for an option that it does not find and
\* verify for a detached signature without results; and it finds in a reply
\* every property of a user id, a subkey, an import or an option that it
\* documents (Key.js, Keyring.js).
RepliesUnderstood ==
  /\ outcome = "unexpected" =>
       last.r.op = "config_opt" \/ (last.r.op = "verify" /\ last.r.detached)
  /\ outcome = "resolved" => ResultFound(last.r.op)

MessagingInv == PiecesInOrder /\ RequestsIsolated /\ AnswerWhole
                /\ ParametersRead /\ RepliesUnderstood

\* A post of gpgme.js comes to an end, whatever the chunk size it may set,
\* unless the process ends: there is no listener for that, and the timeout of
\* 5 seconds in Connection.post is never started.
PostSettles == phase = "waiting" ~> phase = "idle" \/ client = "any" \/ wire.to = "nobody"

\* "When "chunksize" is set the response (including json) will not be larger
\* then "chunksize"" (the help text of gpgme-json.c).
ChunkFits ==
  wire.to = "client" /\ wire.chunk /\ client = "js" => PrintedLength(wire) <= last.chunk
=============================================================================

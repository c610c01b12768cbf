------------------------------ MODULE ServerMemory -----------------------------
(***************************************************************************)
(* The bytes behind UringServer: the provided buffers are one array, and   *)
(* handle_http_request reads the request from a buffer and writes the      *)
(* answer into it.  Buffers are lent as module BufferPool says, which      *)
(* UringServer implements; here a lent buffer has contents.                *)
(*                                                                         *)
(* The one thread serves a request at a time, but the kernel receives into *)
(* and sends from the neighbouring buffers while it does, and the files    *)
(* belong to others: what stat finds and what open finds are two choices.  *)
(***************************************************************************)
EXTENDS HttpConn

CONSTANTS
  Client,
  BUFFERS,  \* number of buffers: 4096
  ERRNO,    \* the error of a failed read: 104 for a reset
  Sizes,    \* sizes of files
  Lengths   \* lengths of requests

Bid == 0 .. BUFFERS - 1
FileState == FileStates(Sizes)

ASSUME MemoryAssumption ==
  /\ BUFFERS \in Nat \ {0} /\ ERRNO \in 1 .. BUF
  /\ Sizes \subseteq Nat /\ Lengths \subseteq 1 .. BUF /\ None \notin Client

VARIABLES
  owner, released,  \* see BufferPool
  proc,     \* "up", or "killed": by a signal, or fatal_error("open")
  mem,      \* the array of buffers
  strayed,  \* a write has left the buffer, or final_path, it was meant for
  request,  \* the text each client has sent
  stage,    \* how far each connection is
  res,      \* promise.res of each connection after its read
  serving,  \* the request between stat and open, None if there is none
  answer,   \* what was decided for each connection
  sent      \* the cells each client has got

poolVars == <<owner, released>>
vars == <<poolVars, proc, mem, strayed, request, stage, res, serving, answer, sent>>

Lending == INSTANCE BufferPool WITH Conn <- Client, Buffer <- Bid, Pool <- None

Stages == {"reading", "received", "served", "sending", "sent"}
Address == 0 .. BUFFERS * BUF - 1
CellType ==
  [tag : {"request", "head"}, of : Client] \union [tag : {"file"}, of : File \union {Far}]
    \union [tag : {"400", "404", "nul", "raw"}, of : {None}]
Raw == Cell("raw", None)
Nothing == [kind |-> "absent", size |-> 0]
NoAnswer == [code |-> "none", path |-> None, st |-> Nothing, got |-> Nothing]

TypeOK ==
  /\ Lending!TypeOK
  /\ proc \in {"up", "killed"}
  /\ mem \in [Address -> CellType]
  /\ strayed \in BOOLEAN
  /\ request \in [Client -> Request \union {None}]
  /\ stage \in [Client -> Stages]
  /\ res \in [Client -> -ERRNO .. BUF]
  /\ serving \in Client \union {None}
  /\ answer \in [Client -> [code : Codes \union {"none"}, path : File \union {Far, None},
                            st : FileState, got : FileState]]
  /\ sent \in [Client -> Seq(CellType)]

--------------------------------------------------------------------------------
(* get_buffer_pointer and get_buffer_id.                                   *)
BufferOf(c) == CHOOSE b \in Bid : owner[b] = c /\ b \notin released
Base(b) == b * BUF

(* Writing and reading cells from address a on; what is outside the array  *)
(* is lost, or anything.                                                   *)
Written(a, cells) ==
  [x \in Address |-> IF x - a + 1 \in DOMAIN cells THEN cells[x - a + 1] ELSE mem[x]]
ReadFrom(a, n) ==
  [i \in 1 .. n |-> IF a + i - 1 \in Address THEN mem[a + i - 1] ELSE Raw]

Inside(b, a, cells) == a >= Base(b) /\ a + Len(cells) <= Base(b) + BUF

Store(b, a, cells) ==
  /\ mem' = Written(a, cells)
  /\ strayed' = (strayed \/ ~Inside(b, a, cells))

Init ==
  /\ Lending!Init
  /\ proc = "up"
  /\ mem = [a \in Address |-> Raw]
  /\ strayed = FALSE
  /\ request = [c \in Client |-> None]
  /\ stage = [c \in Client |-> "reading"]
  /\ res = [c \in Client |-> 0]
  /\ serving = None
  /\ answer = [c \in Client |-> NoAnswer]
  /\ sent = [c \in Client |-> <<>>]

--------------------------------------------------------------------------------
(* The kernel selects a buffer and writes what arrives into it.            *)
Receive(c, b) ==
  /\ proc = "up" /\ stage[c] = "reading"
  /\ Lending!Lend(c, b)
  /\ \E t \in Request, n \in Lengths :
       /\ t.path = Far => n > PATH
       /\ request' = [request EXCEPT ![c] = t]
       /\ res' = [res EXCEPT ![c] = n]
       /\ Store(b, Base(b), Times(Cell("request", c), n))
  /\ stage' = [stage EXCEPT ![c] = "received"]
  /\ UNCHANGED <<proc, serving, answer, sent>>

(* The peer has closed the connection, or reset it.                        *)
ReceiveNothing(c, b) ==
  /\ proc = "up" /\ stage[c] = "reading"
  /\ Lending!Lend(c, b)
  /\ \E n \in {0, -ERRNO} : res' = [res EXCEPT ![c] = n]
  /\ stage' = [stage EXCEPT ![c] = "received"]
  /\ UNCHANGED <<proc, mem, strayed, request, serving, answer, sent>>

(* handle_http_request, resumed: read_buffer[read_bytes] = 0.              *)
(* Bug variant: one further.                                               *)
OffByOne_terminator(b, n) == Base(b) + n + 1
terminator(b, n) == Base(b) + n

(* The text a buffer begins with, as strtok_r will cut it: a request, an   *)
(* earlier answer ("HTTP/1.0" is no method), nothing, or anything.         *)
TextsAt(cell) ==
  CASE cell.tag = "request" -> {request[cell.of]}
    [] cell.tag \in {"head", "400", "404"} -> {Line("other", Slash)}
    [] cell.tag = "nul" -> {Line("none", None)}
    [] cell.tag \in {"raw", "file"} -> Text

(* What stat can find; it is only called for a GET.                        *)
Found(text) ==
  IF text.method = "get" /\ text.path # None THEN FileState ELSE {Nothing}

(* The terminator, and parse_request up to its stat.  After a path that is *)
(* too long the process is killed, or goes on with what it has overwritten.*)
Resume(c) ==
  LET b == BufferOf(c)
      a == terminator(b, res[c])
  IN  /\ proc = "up" /\ serving = None /\ stage[c] = "received"
      /\ mem' = Written(a, <<Nul>>)
      /\ \E text \in TextsAt(mem'[Base(b)]) : \E st \in Found(text) :
           \/ /\ Crashes(text) \/ Overflows(text)
              /\ proc' = "killed" /\ strayed' = (strayed \/ ~Inside(b, a, <<Nul>>))
              /\ UNCHANGED <<stage, serving, answer>>
           \/ /\ ~Crashes(text)
              /\ stage' = [stage EXCEPT ![c] = "served"]
              /\ serving' = c
              /\ answer' = [answer EXCEPT
                   ![c] = [code |-> parse_request(text, st),
                           path |-> final_path(text), st |-> st, got |-> st]]
              /\ strayed' = (strayed \/ ~Inside(b, a, <<Nul>>) \/ Overflows(text))
              /\ UNCHANGED proc
      /\ UNCHANGED <<poolVars, request, res, sent>>

(* The rest of handle_request, then write_socket; open may find the file   *)
(* gone, which is a fatal_error.                                           *)
Respond(c) ==
  LET b == BufferOf(c)
      a == answer[c]
  IN  /\ proc = "up" /\ serving = c
      /\ \E st \in IF a.code = "GET_REQUEST" THEN FileState ELSE {a.st} :
           IF a.code = "GET_REQUEST" /\ st.kind = "absent"
           THEN /\ proc' = "killed"
                /\ UNCHANGED <<mem, strayed, answer, stage, serving>>
           ELSE /\ Store(b, Base(b), answer_text(a.code, c, a.path, bytes_read(st)))
                /\ answer' = [answer EXCEPT ![c].got = st]
                /\ stage' = [stage EXCEPT ![c] = "sending"]
                /\ serving' = None
                /\ UNCHANGED proc
      /\ UNCHANGED <<poolVars, request, res, sent>>

(* The kernel sends response_size cells; the coroutine gives the buffer    *)
(* back and ends.                                                          *)
Send(c) ==
  LET b == BufferOf(c) IN
  /\ proc = "up" /\ stage[c] = "sending"
  /\ sent' = [sent EXCEPT ![c] =
       ReadFrom(Base(b), response_size(answer[c].code, bytes_read(answer[c].got)))]
  /\ stage' = [stage EXCEPT ![c] = "sent"]
  /\ Lending!Release(b)
  /\ UNCHANGED <<proc, mem, strayed, request, res, serving, answer>>

Provide(b) ==
  /\ proc = "up"
  /\ Lending!Return(b)
  /\ UNCHANGED <<proc, mem, strayed, request, stage, res, serving, answer, sent>>

Next ==
  \/ \E c \in Client, b \in Bid : Receive(c, b) \/ ReceiveNothing(c, b)
  \/ \E c \in Client : Resume(c) \/ Respond(c) \/ Send(c)
  \/ \E b \in Bid : Provide(b)

Spec == Init /\ [][Next]_vars

--------------------------------------------------------------------------------
(* Answering leaves the buffer only after a read that filled it, one that  *)
(* failed, or a file that does not fit behind the headers                  *)
(* (server.h:77, http_conn.h:113), and parsing leaves final_path only for  *)
(* a path that is too long (http_conn.h:215); no text that is cut short,   *)
(* and none of the fixed answers, does.                                    *)
StraysOnlyWhen ==
  strayed => \E c \in Client : \/ res[c] \notin 0 .. BUF - 1
                               \/ answer[c].got.size >= BUF - HEADER
                               \/ answer[c].path = Far

(* As long as nothing strayed, the server is killed only by a GET without  *)
(* a path, a path that is too long, a read at the end of the stream, or a  *)
(* file that is gone between stat and open (http_conn.h:108,199-215): by   *)
(* no other request, whatever earlier requests and answers have left in    *)
(* its buffer.                                                             *)
KilledOnlyWhen ==
  proc = "killed" /\ ~strayed =>
    \E c \in Client :
      \/ stage[c] = "received" /\ res[c] = 0
      \/ stage[c] = "received" /\ request[c] \in {Line("get", None), Line("get", Far)}
      \/ serving = c /\ answer[c].code = "GET_REQUEST"

(* As long as nothing strayed, a client gets the answer that was made for  *)
(* it, whole, and nothing else, whichever requests are received, served    *)
(* and sent from the neighbouring buffers meanwhile, and whoever used its  *)
(* own before.  The exception is the end of a 404 answer, which is         *)
(* whatever the buffer held: its size is that of the 400 text              *)
(* (http_conn.h:174).                                                      *)
AnswerIntact ==
  ~strayed => \A c \in Client : stage[c] = "sent" =>
    CASE answer[c].code = "BAD_REQUEST" -> sent[c] = Times(Cell("400", None), LONG)
      [] answer[c].code = "NO_FOUND" ->
           /\ Len(sent[c]) = LONG
           /\ \A i \in 1 .. SHORT : sent[c][i] = Cell("404", None)
      [] answer[c].code = "GET_REQUEST" /\ answer[c].got.kind = "regular" ->
           sent[c] = Times(Cell("head", c), HEADER)
                       \o Times(Cell("file", answer[c].path), answer[c].got.size)
      [] OTHER -> TRUE

(* A request is answered by its method and path, not by those of another   *)
(* that passed through the same buffer: "400" exactly when it is no GET.   *)
AnsweredAsAsked ==
  ~strayed => \A c \in Client : answer[c].code # "none" /\ res[c] > 0 =>
    /\ answer[c].code = "BAD_REQUEST" <=> request[c].method # "get"
    /\ answer[c].code # "BAD_REQUEST" => answer[c].path = final_path(request[c])

(* content-length is stat's, the body is what the read returned.  They     *)
(* agree when the file is left alone in between and is not longer than the *)
(* read (http_conn.h:113,154), whatever has strayed into other buffers.    *)
LengthAnnounced ==
  (\A c \in Client : answer[c].path # Far) => \A c \in Client :
    stage[c] = "sent" /\ answer[c].code = "GET_REQUEST"
      /\ answer[c].got = answer[c].st /\ answer[c].st.size <= BUF
    => Len(sent[c]) = HEADER + answer[c].st.size

================================================================================

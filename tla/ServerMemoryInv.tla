---------------------------- MODULE ServerMemoryInv ----------------------------
(***************************************************************************)
(* The inductive invariant behind the safety properties of ServerMemory:   *)
(* whose a buffer is at each stage of a connection, and what it begins     *)
(* with as long as nothing has strayed.                                    *)
(***************************************************************************)
EXTENDS ServerMemory

(* A connection has a buffer from its read to its write, and only then.    *)
Holding == {"received", "served", "sending"}
Holds(c, b) == owner[b] = c /\ b \notin released

PoolInv ==
  /\ \A b \in released : owner[b] # None
  /\ \A c \in Client, b \in Bid : Holds(c, b) => stage[c] \in Holding
  /\ \A c \in Client : stage[c] \in Holding => \E b \in Bid : Holds(c, b)
  /\ \A c \in Client, b, d \in Bid : Holds(c, b) /\ Holds(c, d) => b = d

(* A request is answered between the stages "served" and "sending", once.  *)
Answered(c) == stage[c] \in {"served", "sending", "sent"}
Finished(c) == stage[c] \in {"sending", "sent"}

StageOf(c) ==
  /\ stage[c] = "served" <=> serving = c
  /\ stage[c] = "reading" => res[c] = 0
  /\ ~Answered(c) => answer[c] = NoAnswer
  /\ Answered(c) => answer[c].code # "none"
  /\ stage[c] = "received" /\ res[c] > 0 => request[c] \in Request
  /\ answer[c].code \in {"GET_REQUEST", "NO_FOUND"} => answer[c].path # None
  /\ answer[c].code = "GET_REQUEST" => answer[c].st.kind = "regular"
  /\ stage[c] = "served" => answer[c].got = answer[c].st
  /\ Finished(c) /\ answer[c].code = "GET_REQUEST" => answer[c].got.kind # "absent"

StageInv == \A c \in Client : StageOf(c)

(* A request is in memory only after it was sent.                          *)
RequestInv ==
  \A x \in Address : mem[x].tag = "request" => request[mem[x].of] \in Request

(* What a lent buffer begins with.                                         *)
TextFor(c) ==
  answer_text(answer[c].code, c, answer[c].path, bytes_read(answer[c].got))
Contains(b, cells) == \A i \in DOMAIN cells : mem[Base(b) + i - 1] = cells[i]

ContentsOf(c) ==
  /\ Finished(c) => Len(TextFor(c)) <= BUF
  /\ \A b \in Bid : Holds(c, b) =>
       /\ stage[c] = "received" /\ res[c] > 0 => mem[Base(b)] = Cell("request", c)
       /\ stage[c] = "sending" => Contains(b, TextFor(c))

ContentsInv == ~strayed => \A c \in Client : ContentsOf(c)

(* What has strayed has a cause that does not go away: the file that was   *)
(* read, not the one that stat has seen.                                   *)
StrayInv ==
  strayed => \E c \in Client :
    \/ res[c] \notin 0 .. BUF - 1
    \/ Finished(c) /\ answer[c].got.size >= BUF - HEADER
    \/ answer[c].path = Far

SentInv ==
  \A c \in Client : stage[c] = "sent" =>
    Len(sent[c]) = response_size(answer[c].code, bytes_read(answer[c].got))

IInv ==
  /\ TypeOK
  /\ PoolInv
  /\ StageInv
  /\ RequestInv
  /\ ContentsInv
  /\ StrayInv
  /\ SentInv
  /\ KilledOnlyWhen
  /\ AnswerIntact
  /\ AnsweredAsAsked

================================================================================

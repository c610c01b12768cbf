-------------------------------- MODULE HttpConn -------------------------------
(***************************************************************************)
(* server/http_conn.h: what handle_request makes of the text in a buffer.  *)
(* A byte of the text is a cell, tagged with where it comes from; the      *)
(* fixed texts and the headers are so many cells of their kind.            *)
(***************************************************************************)
EXTENDS Integers, Sequences

CONSTANTS
  BUF,      \* cells of a buffer, and of the read of the file: 2048
  HEADER,   \* cells of the headers of a "200 OK" answer
  LONG,     \* cells of unimplemented_content: 264
  SHORT,    \* cells of http_404_content: 226
  File,     \* file names
  Index,    \* "index.html"
  Slash,    \* a path that ends in "/"
  Far,      \* a path that is longer than final_path
  PATH,     \* cells of final_path: 256
  None

ASSUME HttpAssumption ==
  /\ BUF \in Nat /\ HEADER \in 1 .. BUF - 1
  /\ LONG \in 1 .. BUF - 1 /\ SHORT \in 1 .. LONG - 1
  /\ PATH \in 1 .. BUF - 1
  /\ Index \in File /\ {Slash, Far, None} \intersect File = {}
  /\ Slash # Far /\ None \notin {Slash, Far}

(* The first line: method and path, None where the text ends before it.    *)
(* Only a GET's path is looked at.                                         *)
Line(method, path) == [method |-> method, path |-> path]
Request == {Line("get", p) : p \in File \union {Slash, Far, None}}
             \union {Line("other", p) : p \in {Slash, None}}
Text == Request \union {Line("none", None)}

(* What stat and open find under a name; a file that is not "regular" may  *)
(* be a directory, whose read fails.                                       *)
FileStates(sizes) ==
  [kind : {"regular"}, size : sizes]
    \union [kind : {"absent", "directory"}, size : {0}]

Codes == {"BAD_REQUEST", "NO_FOUND", "GET_REQUEST"}

--------------------------------------------------------------------------------
(* parse_request: strtok_r's NULL is dereferenced when the method or the   *)
(* path of a GET is missing.                                               *)
(* Bug variant: the path is looked at before the method.                   *)
PathFirst_Crashes(text) == text.method = "none" \/ text.path = None
Crashes(text) ==
  text.method = "none" \/ (text.method = "get" /\ text.path = None)

(* strcpy writes past the end of final_path, which lies in the frame of    *)
(* the coroutine.                                                          *)
Overflows(text) == text = Line("get", Far)

(* Bug variant: the directory itself is served.                            *)
KeepsSlash_final_path(text) == text.path
final_path(text) == IF text.path = Slash THEN Index ELSE text.path

(* The code for a text whose file, if it names one, is st for stat.        *)
(* Bug variant: the sense of strcmp is mistaken.                           *)
Inverted_parse_request(text, st) ==
  IF text.method = "get" THEN "BAD_REQUEST"
  ELSE IF st.kind = "regular" THEN "GET_REQUEST" ELSE "NO_FOUND"
parse_request(text, st) ==
  IF text.method # "get" THEN "BAD_REQUEST"
  ELSE IF st.kind = "regular" THEN "GET_REQUEST" ELSE "NO_FOUND"

--------------------------------------------------------------------------------
Cell(tag, of) == [tag |-> tag, of |-> of]
Nul == Cell("nul", None)
Times(cell, n) == [i \in 1 .. n |-> cell]

(* add_content: at most 2048 bytes are read behind the headers; a read     *)
(* that fails returns -1, which moves the pointer back.                    *)
(* Bug variant: it leaves room for the terminator in the read's length.    *)
RoomForNul_bytes_read(st) ==
  IF st.kind = "directory" THEN -1
  ELSE IF st.size < BUF THEN st.size ELSE BUF - 1
bytes_read(st) ==
  IF st.kind = "directory" THEN -1
  ELSE IF st.size < BUF THEN st.size ELSE BUF

(* The text left in the buffer, and past its end if it is longer.          *)
answer_text(code, c, path, read) ==
  CASE code = "BAD_REQUEST" -> Append(Times(Cell("400", None), LONG), Nul)
    [] code = "NO_FOUND"    -> Append(Times(Cell("404", None), SHORT), Nul)
    [] code = "GET_REQUEST" ->
         IF read = -1 THEN Times(Cell("head", c), HEADER - 1) \o <<Nul, Nul>>
         ELSE Times(Cell("head", c), HEADER) \o Times(Cell("file", path), read)
                \o <<Nul>>

(* response_size: the length of the 400 text for a 404 answer too.         *)
(* Bug variant: the terminator is counted.                                 *)
WithNul_response_size(code, read) ==
  IF code = "GET_REQUEST" THEN HEADER + read + 1 ELSE LONG
response_size(code, read) == IF code = "GET_REQUEST" THEN HEADER + read ELSE LONG

================================================================================

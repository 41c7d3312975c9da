-------------------------------- MODULE Http --------------------------------
(***************************************************************************)
(* What the server of day_01/demo_02/http makes of a request: Http.hpp and *)
(* the Login of Main.cc, as operators.                                     *)
(*                                                                         *)
(* A request is a sequence of pieces: the request line, headers and the    *)
(* empty line, each with its CRLF, and the halves of a text.  What recv()  *)
(* returns is a prefix of it: a line that is cut is a line without CRLF,   *)
(* which GetOneLine does not return, and might as well be missing.         *)
(*                                                                         *)
(* A resource is what wwwroot is prefixed to: directory, name and suffix,  *)
(* and the query of a URI that is not split.  A text stands for the        *)
(* contents of the file it names.                                          *)
(***************************************************************************)
EXTENDS Integers, Sequences, SequencesExt, FiniteSets

CONSTANTS
  Pages,       (* resources that are files with contents                    *)
  Directories, (* resources that are directories                            *)
  Functions,   (* names of the handlers main adds                           *)
  MimeFile,    (* conf/Mime_Type.txt: lines <<suffix, type>>, <<>> for one  *)
               (* without ": "                                              *)
  Redirected   (* the status of redir: 301, in cookie_session 302           *)

Resource(dir, name, suffix) ==
  [dir |-> dir, name |-> name, suffix |-> suffix, query |-> ""]

Wwwroot == Resource("", "", "")
Homepage == Resource("", "index", ".html")
ErrorPage == Resource("", "404", ".html")
Redir == Resource("", "redir", "")
LoginText == Resource("", "haha,no content!", "")

(* wwwroot has a 404.html.                                                 *)
ASSUME PagesAssumption == ErrorPage \in Pages

(* The pieces of a request; a header without ": " has the name "".         *)
Line(method, resource, query) ==
  [piece |-> "line", method |-> method, resource |-> resource, query |-> query]
Header(name, value) == [piece |-> "header", name |-> name, value |-> value]
Blank == [piece |-> "blank"]
Text == [piece |-> "text"]

-----------------------------------------------------------------------------
(* Lines until the empty one, or until what has been received ends.        *)
GetLines(pieces) ==
  LET blank == SelectInSeq(pieces, LAMBDA p : p.piece = "blank")
  IN  SubSeq(pieces, 1, IF blank = 0 THEN Len(pieces) ELSE blank - 1)

(* A URI that ends with / means its homepage.                              *)
WithHomepage(resource) ==
  IF resource.name = "" THEN [resource EXCEPT !.name = Homepage.name,
                                              !.suffix = Homepage.suffix]
                        ELSE resource

(* Arguments are split from the URI of GET only.  Without a line the path  *)
(* is wwwroot.                                                             *)
ParseReqLine(lines) ==
  IF lines = <<>> THEN [method |-> "", resource |-> Wwwroot, args |-> ""]
  ELSE LET line == lines[1]
           path == WithHomepage(line.resource)
       IN  IF line.method = "GET"
           THEN [method |-> "GET", resource |-> path, args |-> line.query]
           ELSE [method |-> line.method, args |-> "",
                 resource |-> [path EXCEPT !.query = line.query]]

(* The headers up to the first one without ": ".                           *)
ParseReqHeader(lines) ==
  LET headers == Tail(lines)
      bad == SelectInSeq(headers, LAMBDA h : h.name = "")
  IN  IF lines = <<>> THEN <<>>
      ELSE SubSeq(headers, 1, IF bad = 0 THEN Len(headers) ELSE bad - 1)

(* Variant of DeSerialize: the empty line counts as text.                  *)
DeSerializeBlank(pieces) ==
  LET lines == GetLines(pieces)
  IN  [line |-> ParseReqLine(lines),
       headers |-> ParseReqHeader(lines),
       text |-> SubSeq(pieces, Len(lines) + 1, Len(pieces))]

DeSerialize(pieces) ==
  LET lines == GetLines(pieces)
  IN  [line |-> ParseReqLine(lines),
       headers |-> ParseReqHeader(lines),
       text |-> SubSeq(pieces, Len(lines) + 2, Len(pieces))]

(* Variant of IsExec: a body is not looked at.                             *)
IsExecByArgs(req) == req.line.args # ""

IsExec(req) == req.line.args # "" \/ req.text # <<>>

-----------------------------------------------------------------------------
(* Loading stops at the first line without ": "; a suffix that is listed   *)
(* twice has its later type.                                               *)
LoadMimeType ==
  LET bad == SelectInSeq(MimeFile, LAMBDA l : l = <<>>)
      lines == SubSeq(MimeFile, 1, IF bad = 0 THEN Len(MimeFile) ELSE bad - 1)
      Final(suffix) == SelectLastInSeq(lines, LAMBDA l : l[1] = suffix)
  IN  [suffix \in {lines[i][1] : i \in DOMAIN lines} |-> lines[Final(suffix)][2]]

(* _mime_type[suffix], which inserts what it does not find.                *)
MimeType(suffix) ==
  IF suffix \in DOMAIN LoadMimeType THEN LoadMimeType[suffix] ELSE ""

(* wwwroot/login.                                                          *)
AddHandler(functionname) == Resource("", functionname, "")

Funcs == {AddHandler(f) : f \in Functions}

(* The file system decides how long a directory is: not at all, some       *)
(* bytes, which stay 0, or -1, which resize() throws std::length_error at  *)
(* (see Ends).                                                             *)
ReadFileRequest(resource) ==
  (IF resource \in Pages \cup Directories THEN {<<resource>>} ELSE {})
    \cup (IF resource \notin Pages THEN {<<>>} ELSE {})

Response(status, type, text) == [status |-> status, type |-> type, text |-> text]

(* The answer of every handler of the repository.                          *)
Login(req) == Response(200, "text/html", <<LoginText>>)

(* A text that is empty means that there is no such page.                  *)
Page(resource, text) ==
  IF text # <<>> THEN {Response(200, MimeType(resource.suffix), text)}
  ELSE {Response(404, MimeType(".html"), text404)
          : text404 \in ReadFileRequest(ErrorPage)}

(* _status_code of a response nobody gave a status.                        *)
Uninitialised == {0, 200}

(* The responses a request may get.                                        *)
HandlerHttpService(req) ==
  LET resource == req.line.resource
  IN  CASE IsExec(req) -> {Login(req) : f \in Funcs \cap {resource}}
        [] ~IsExec(req) /\ resource = Redir ->
             {Response(Redirected, MimeType(resource.suffix), <<>>)}
        [] ~IsExec(req) /\ resource = ErrorPage ->
             {Response(s, "", <<>>) : s \in Uninitialised}
        [] OTHER -> UNION {Page(resource, text)
                             : text \in ReadFileRequest(resource)}

(* Exceptions nobody catches: an empty std::function is called, a string   *)
(* is resized to -1.                                                       *)
Ends(req) ==
  CASE IsExec(req) /\ req.line.resource \notin Funcs -> {"bad_function_call"}
    [] ~IsExec(req) /\ req.line.resource \in Directories -> {"length_error"}
    [] OTHER -> {}

(* The suffixes looked up in _mime_type for a response, and for a request: *)
(* that of the page or of the redirect, or ".html" when there is no page.  *)
LookedUp(req, response) ==
  IF IsExec(req) \/ req.line.resource = ErrorPage THEN {}
  ELSE IF response.status = 404 THEN {".html"}
  ELSE {req.line.resource.suffix}

Lookups(req) ==
  UNION {LookedUp(req, response) : response \in HandlerHttpService(req)}
=============================================================================

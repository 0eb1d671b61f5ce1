------------------------------ MODULE HelpPages ------------------------------
(***************************************************************************)
(* What the JSON-RPC servers tell about their methods: the pages of a GET  *)
(* (HttpHandler::onGET), the list of methods for scripts and its tag, the  *)
(* list of the old server (Server.listMethods) and its help (loadHelp,     *)
(* Server.help). A line is a sequence of letters, a name one of names and  *)
(* colons; a method's types are what follows the last colon of its name.   *)
(***************************************************************************)
EXTENDS Naturals, Sequences, SequencesExt, FiniteSets

MaxVersion == 9     \* stands for naturalNull, "max"
NoTag == <<"none">>

(* The version a request asks for: the last of its fields of that name,    *)
(* else its header; a field is [name, version].                            *)
VersionNames == {"v", "ver", "version"}
VersionFromReq(fields, header) ==
    FoldLeft(LAMBDA version, f : f.version, header, SelectSeq(fields, LAMBDA f : f.name \in VersionNames))

(* The methods of a dispatcher, in the order of its map, are records of a  *)
(* base name and the last version that has them. A name that is there with *)
(* several prototypes is listed with each: prevMethod is never set.        *)
Listed(methods, version) ==
    FoldLeft(LAMBDA list, m : IF m.version >= version THEN Append(list, m.name) ELSE list, <<>>, methods)

(* The answer, and the handler's methodListTag after it: whatever method   *)
(* list was sent last, to whomever. A query belongs to the name of a list, *)
(* which then does not end as a script's does.                             *)
Answer(handler, status, body) == [status |-> status, body |-> body, tag |-> handler.tag]

DumpMethods(handler, get) ==
    IF get.query THEN Answer(handler, 404, <<>>)
    ELSE IF get.has # NoTag /\ get.has = handler.tag THEN Answer(handler, 304, <<>>)
    ELSE LET list == Listed(handler.methods, VersionFromReq(get.fields, get.header))
         IN  [Answer(handler, 200, list) EXCEPT !.tag = list]

(* A path that is empty becomes the web client's page.                     *)
OnGET(handler, get) ==
    CASE get.path = "/methods/x.js" -> DumpMethods(handler, get)
      [] get.path \in {"/client.js", "/ws_client.js"} -> Answer(handler, 200, <<get.path>>)
      [] get.path \notin {"/methods/x.js", "/client.js", "/ws_client.js"} ->
           IF ~handler.webClient THEN Answer(handler, 405, <<>>)
           ELSE Answer(handler, 200, <<IF get.path = "" /\ ~get.query THEN "page of the client" ELSE get.path>>)

-----------------------------------------------------------------------------
(* Server.listMethods of the old server, and the letters that stand for    *)
(* the arguments of a call (BuildParamFormat); u is for what has no type.  *)
Letter(type) ==
    CASE type = "array" -> "a" [] type = "bool" -> "b" [] type = "object" -> "c" [] type = "number" -> "n"
      [] type = "null" -> "x" [] type = "string" -> "s" [] OTHER -> "u"

Token(letter) ==
    CASE letter = "a" -> "[ ]" [] letter = "b" -> "true/false" [] letter = "c" -> "{}" [] letter = "n" -> "0"
      [] letter = "x" -> "null" [] letter \in {"d", "s"} -> "''" [] OTHER -> "???"

LastColon(name) == SelectLastInSeq(name, LAMBDA c : c = ":")
BareName(name) == IF LastColon(name) = 0 THEN name ELSE SubSeq(name, 1, LastColon(name) - 1)
ListMethod(name) ==
    IF LastColon(name) = 0 THEN name
    ELSE BareName(name) \o <<" [ ">>
           \o FoldLeft(LAMBDA text, letter : IF text = <<>> THEN <<Token(letter)>> ELSE text \o <<", ", Token(letter)>>,
                       <<>>, SubSeq(name, LastColon(name) + 1, Len(name)))
           \o <<" ]">>

-----------------------------------------------------------------------------
(* A line of a help file (addLine). Two marks in a row open or close an    *)
(* element; the second takes back the last character there is, which after *)
(* a third is the end of the tag before it. A letter that repeats the one  *)
(* before it is not escaped, nor is the first one.                         *)
Marks == {"*", "/", "_"}
Opening(c) == CASE c = "*" -> "<strong>" [] c = "/" -> "<em>" [] c = "_" -> "<u>"
Closing(c) == CASE c = "*" -> "</strong>" [] c = "/" -> "</em>" [] c = "_" -> "</u>"
Entity(c) == CASE c = "<" -> "&lt;" [] c = ">" -> "&gt;" [] c = "&" -> "&amp;" [] OTHER -> c
Tags == {Opening(c) : c \in Marks} \cup {Closing(c) : c \in Marks}

TakeBack(text) == IF Last(text) \in Tags THEN Append(Front(text), "broken tag") ELSE Front(text)

AddLine(line) ==
    LET step(acc, i) ==
            IF line[i] # line[i - 1] THEN [acc EXCEPT !.text = Append(@, Entity(line[i]))]
            ELSE IF line[i] \notin Marks THEN [acc EXCEPT !.text = Append(@, line[i])]
            ELSE IF line[i] \in acc.open
            THEN [text |-> Append(TakeBack(acc.text), Closing(line[i])), open |-> acc.open \ {line[i]}]
            ELSE [text |-> Append(TakeBack(acc.text), Opening(line[i])), open |-> acc.open \cup {line[i]}]
        end == FoldLeft(step, [text |-> <<line[1]>>, open |-> {}], [i \in 1..Len(line) - 1 |-> i + 1])
    IN  IF line = <<>> THEN <<"<br />">>
        ELSE end.text \o FlattenSeq([k \in 1..3 |-> LET c == <<"_", "/", "*">>[k] IN
                                        IF c \in end.open THEN <<Closing(c)>> ELSE <<>>]) \o <<"<br />">>

(* A file of pages: a name, lines, and a line with a dot. A line is strong *)
(* unless it starts with a tabulator: one that starts with a space is too. *)
PageLine(line) ==
    IF line = <<>> \/ line[1] = "tab" THEN AddLine(line) ELSE <<"<strong>">> \o AddLine(line) \o <<"</strong>">>

LoadHelp(lines) ==
    LET step(acc, line) ==
            IF acc.name = <<>> THEN [acc EXCEPT !.name = line, !.text = <<"<pre>">>]
            ELSE IF line # <<".">> THEN [acc EXCEPT !.text = @ \o PageLine(line)]
            ELSE [pages |-> Append(acc.pages, <<acc.name, Append(acc.text, "</pre>")>>), name |-> <<>>, text |-> <<>>]
        end == FoldLeft(step, [pages |-> <<>>, name |-> <<>>, text |-> <<>>], lines)
    IN  IF end.name = <<>> THEN end.pages ELSE Append(end.pages, <<end.name, Append(end.text, "</pre>")>>)

(* Help is kept under the bare name, and the first one stays; a method is  *)
(* erased with its whole name.                                             *)
Known(help, name) == \E i \in DOMAIN help : help[i][1] = name
RegisterMethod(help, name, text) ==
    IF text = <<>> \/ Known(help, BareName(name)) THEN help ELSE Append(help, <<BareName(name), text>>)
EraseMethod(help, name) == SelectSeq(help, LAMBDA h : h[1] # name)

-----------------------------------------------------------------------------
(* "Not modified" is said of the list that the browser would get, and no   *)
(* page but a list of methods disturbs the tag. At each time, [methods,    *)
(* get], somebody asks; the browser at the first and, with the tag it got, *)
(* at the last.                                                            *)
(* Known defect: the tag is that of the list that was sent last, whatever  *)
(* methods there are by now and whatever version it was asked for          *)
(* (httpHandler.cpp:196-199, 229).                                         *)
TagRight(times) ==
    LET n == Len(times)
        handler(i, tag) == [methods |-> times[i].methods, tag |-> tag, webClient |-> FALSE]
        tags[i \in 0..n - 1] == IF i = 0 THEN NoTag ELSE OnGET(handler(i, tags[i - 1]), times[i].get).tag
        again == OnGET(handler(n, tags[n - 1]), [times[n].get EXCEPT !.has = tags[1]])
        list(i) == Listed(times[i].methods, VersionFromReq(times[i].get.fields, times[i].get.header))
        lists == {i \in 1..n - 1 : tags[i] # tags[i - 1]}
        outOfDate == tags[n - 1] # list(n)
    IN  /\ again.status = 304 => tags[1] = tags[n - 1] /\ (tags[1] = list(n) \/ outOfDate)
        /\ again.status = 200 /\ times[n].get.path = "/methods/x.js" => again.body = list(n)
        /\ \A i \in lists : times[i].get.path = "/methods/x.js" /\ tags[i] = list(i)

(* The list of the old server shows, for a method with letters, as many    *)
(* arguments as it has, each in the form of its type.                      *)
ListRight(name, types) ==
    LET text == ListMethod(name \o <<":">> \o [i \in DOMAIN types |-> Letter(types[i])])
    IN  /\ SubSeq(text, 1, Len(name)) = name
        /\ Len(text) = Len(name) + 2 + (IF types = <<>> THEN 0 ELSE (2 * Len(types)) - 1)
        /\ \A i \in DOMAIN types : text[Len(name) + (2 * i)] = Token(Letter(types[i]))

(* Known defects of addLine: a third mark in a row breaks the tag before   *)
(* it, and what starts a line or repeats a letter is not escaped           *)
(* (jsonRpc.cpp:409-446).                                                  *)
Tripled(line) == \E i \in DOMAIN line : i > 2 /\ line[i] \in Marks /\ line[i] = line[i - 1] /\ line[i] = line[i - 2]
NotEscaped(line) ==
    line # <<>> /\ (line[1] = "<" \/ \E i \in 2..Len(line) : line[i] = "<" /\ line[i - 1] = "<")

(* Every element that a line opens it closes, and the text between the     *)
(* tags is the line's without its doubled marks; the last tag of each kind *)
(* is a closing one; and angle brackets are escaped. All this but for the  *)
(* defects named.                                                          *)
LineRight(line) ==
    LET text == AddLine(line)
        of(c) == SelectSeq(text, LAMBDA t : t \in {Opening(c), Closing(c)})
        doubled == {i \in DOMAIN line : line[i] \in Marks /\ (\E j \in {i - 1, i + 1} \cap DOMAIN line : line[j] = line[i])}
    IN  /\ \/ Tripled(line)
           \/ /\ \A c \in Marks : of(c) = [i \in DOMAIN of(c) |-> IF i % 2 = 1 THEN Opening(c) ELSE Closing(c)]
              /\ \A c \in Marks : Len(of(c)) % 2 = 0
              /\ Len(SelectSeq(text, LAMBDA t : t \notin Tags)) = Len(line) - Cardinality(doubled) + 1
        /\ \A c \in Marks : of(c) # <<>> => Last(of(c)) = Closing(c)
        /\ "<" \in Range(text) => NotEscaped(line)

(* Every method of a file gets one page, a whole one, which is found by    *)
(* the bare name and goes when the method is erased.                       *)
(* Known defect: it stays if the method has a prototype, whose letters are *)
(* in the name that is erased (jsonRpc.cpp:342).                           *)
HelpOutlives(name) == LastColon(name) # 0
PagesRight(lines) ==
    LET pages == LoadHelp(lines)
    IN  /\ \A i \in DOMAIN pages : Head(pages[i][2]) = "<pre>" /\ Last(pages[i][2]) = "</pre>"
        /\ Len(pages) <= Cardinality({i \in DOMAIN lines : lines[i] = <<".">>}) + 1
        /\ \A i \in DOMAIN pages :
             LET name == pages[i][1] IN
             /\ name # <<>>
             /\ RegisterMethod(pages, name \o <<":", "n">>, <<"text">>) = pages
             /\ \A method \in {name, name \o <<":", "n">>} :
                    ~Known(EraseMethod(pages, method), name) \/ HelpOutlives(method)
=============================================================================

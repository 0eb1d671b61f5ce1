----------------------------- MODULE StaticPages -----------------------------
(***************************************************************************)
(* The files of a folder (SimpleWebSite): which one a path names and what  *)
(* is answered with it; and the text that goes with a status (getStatus-   *)
(* Message). A file is a record of its tag, the number of blocks in it,    *)
(* and the block at which reading it fails: 0 for what is asked of it      *)
(* before it is opened, 1 for opening it, more than there are for none.    *)
(***************************************************************************)
EXTENDS Naturals, Sequences, SequencesExt

(* The path is taken name by name from the root, the query left out.       *)
Walk(names) ==
    FoldLeft(LAMBDA path, t : IF t \in {"", "."} THEN path
                              ELSE IF t # ".." THEN Append(path, t)
                              ELSE IF path # <<>> THEN Front(path) ELSE path,
             <<>>, names)
Resource(names) == IF Walk(names) = <<>> THEN <<"index.html">> ELSE Walk(names)

(* What has been written when the handler returns: it returns 0 also when  *)
(* it has served a file, and is then asked no more only if the head is     *)
(* out, which the first block takes with it. Of a file without blocks the  *)
(* fields of the header are left for who is asked next; the error page     *)
(* takes its own instead (errorPage).                                      *)
Reply(status, blocks, closes) ==
    [status |-> status, length |-> 0, blocks |-> blocks, closes |-> closes, passed |-> FALSE, left |-> {}]
Pass(left) == [Reply(0, 0, FALSE) EXCEPT !.passed = TRUE, !.left = left]
ErrorPage == Reply(404, 1, TRUE)

ServeFile(file, ifNoneMatch) ==
    IF file.fails = 0 THEN ErrorPage
    ELSE IF ifNoneMatch = file.tag THEN Reply(304, 0, FALSE)
    ELSE IF file.fails = 1 THEN ErrorPage
    ELSE IF file.blocks = 0 THEN Pass({"Content-Length", "ETag"})
    ELSE LET broken == file.fails <= file.blocks
         IN  [Reply(200, IF broken THEN file.fails - 1 ELSE file.blocks, broken) EXCEPT !.length = file.blocks]

OnRequest(files, names, ifNoneMatch) ==
    IF Resource(names) \in DOMAIN files THEN ServeFile(files[Resource(names)], ifNoneMatch) ELSE Pass({})

(* The handler that is asked next sends so many blocks, and says so in a   *)
(* header of its own or leaves it to the chunks.                           *)
AnsweredNext(passed, blocks, says) ==
    [Reply(200, blocks, FALSE) EXCEPT
        !.length = IF ~says /\ "Content-Length" \in passed.left THEN 0 ELSE blocks]

-----------------------------------------------------------------------------
(* The path of names means what a shell would make of it below the root.   *)
WalkRight(before, name, after) ==
    LET plain == name \notin {"", ".", ".."}
    IN  /\ Walk(before \o <<name>>) =
             IF plain THEN Append(Walk(before), name)
             ELSE IF name = ".." /\ Walk(before) # <<>> THEN Front(Walk(before)) ELSE Walk(before)
        /\ Walk(Walk(before) \o after) = Walk(before \o after)
        /\ plain => Walk(before \o <<name, "..">> \o after) = Walk(before \o after)

(* A whole file, its tag acknowledged, or an end the client can tell from  *)
(* a whole file; and if the request is passed on, the answer of the next   *)
(* handler is whole.                                                       *)
(* Known defect: a file with nothing in it is not served but passed on,    *)
(* and its length announces what the next handler sends                    *)
(* (simpleWebSite.cpp:84-95).                                              *)
EmptyPassedOn(file) == file.blocks = 0
FileRight(file, ifNoneMatch) ==
    LET r == ServeFile(file, ifNoneMatch)
    IN  /\ r.status = 200 => r.closes \/ (r.blocks = r.length /\ file.fails > file.blocks)
        /\ r.status = 304 => ifNoneMatch = file.tag
        /\ r.passed => EmptyPassedOn(file)
        /\ \A blocks \in 1..2, says \in BOOLEAN :
              r.passed => AnsweredNext(r, blocks, says).length = blocks \/ EmptyPassedOn(file)

-----------------------------------------------------------------------------
(* The texts of statuses, in the order of their codes, searched by halves. *)
Codes == <<100, 101, 200, 201, 202, 203, 204, 205, 206, 300, 301, 302, 303, 304, 305, 307,
           400, 401, 402, 403, 404, 405, 406, 407, 408, 409, 410, 411, 412, 413, 414, 415, 416, 417, 426,
           500, 501, 502, 503, 504, 505>>
Unknown == 0

StatusMessage(status) ==
    LET n == Len(Codes)
        found[l \in 0..n, h \in 0..n] ==
            LET m == (l + h) \div 2
            IN  IF l >= h THEN Unknown
                ELSE IF Codes[m + 1] > status THEN found[l, m]
                ELSE IF Codes[m + 1] < status THEN found[m + 1, h]
                ELSE m + 1
    IN  IF status \in 100..999 THEN found[0, n] ELSE Unknown

(* A status gets its own text, if there is one. *)
StatusRight(status) ==
    LET i == StatusMessage(status)
    IN  IF i = Unknown THEN status \notin {Codes[j] : j \in DOMAIN Codes} ELSE Codes[i] = status
=============================================================================

----------------------------- MODULE JsonWriter -----------------------------
(***************************************************************************)
(* src/base/JsonWriter.cpp: writes JSON to a file, here a sequence of      *)
(* tokens; keys and values are written as they are given.  A writer is a   *)
(* record; each operator is one of its methods and returns the writer      *)
(* after the call, "failed" once one has thrown.                           *)
(***************************************************************************)
EXTENDS Integers, Sequences, SequencesExt, TLC

(* Open() on a new writer.                                                 *)
Open == [out      |-> << >>,
         sections |-> << >>,        \* _sections, the innermost last
         first    |-> <<TRUE>>,     \* _isFirstOfSection, one more than sections
         failed   |-> FALSE]

(* What precedes an item of a section.                                     *)
Separated(writer) ==
    [writer EXCEPT !.out   = IF Last(writer.first) THEN @ ELSE Append(@, ","),
                   !.first = Append(Front(@), FALSE)]

(* Starts a section, after "prefix".                                       *)
Begin(writer, section, prefix) ==
    LET w == Separated(writer)
    IN  [w EXCEPT !.out      = @ \o prefix \o <<IF section = "array" THEN "[" ELSE "{">>,
                  !.sections = Append(@, section),
                  !.first    = Append(@, TRUE)]

End(writer, section) ==
    IF writer.sections = << >> \/ Last(writer.sections) # section
    THEN [writer EXCEPT !.failed = TRUE]
    ELSE [writer EXCEPT !.out      = Append(@, IF section = "array" THEN "]" ELSE "}"),
                        !.sections = Front(@),
                        !.first    = Front(@)]

(* BeginArray and BeginDict do not look where they are.                    *)
BeginArray(writer) == Begin(writer, "array", << >>)
BeginDict(writer)  == Begin(writer, "dict", << >>)
EndArray(writer)   == End(writer, "array")
EndDict(writer)    == End(writer, "dict")

InDict(writer) == writer.sections # << >> /\ Last(writer.sections) = "dict"

KeyDictValue(writer, key) ==
    IF InDict(writer) THEN Begin(writer, "dict", <<key, ":">>)
    ELSE [writer EXCEPT !.failed = TRUE]

KeyArrayValue(writer, key) ==
    IF InDict(writer) THEN Begin(writer, "array", <<key, ":">>)
    ELSE [writer EXCEPT !.failed = TRUE]

KeyValue(writer, key, value) ==
    IF InDict(writer)
    THEN [Separated(writer) EXCEPT !.out = @ \o <<key, ":", value>>]
    ELSE [writer EXCEPT !.failed = TRUE]

----------------------------------------------------------------------------
(* A reader of JSON, to say what was written.  It keeps the sections around *)
(* it, each with the key or the index that it is at, what may come next    *)
(* (nothing, once something was wrong), and the values by their path.      *)
Reader == [sections |-> << >>, next |-> "value", paths |-> {}, values |-> << >>]

Wrong(r) == [r EXCEPT !.next = "nothing"]

Inside(r, open) == r.sections # << >> /\ Last(r.sections).open = open

Path(r) == [i \in DOMAIN r.sections |-> r.sections[i].at]

ValueMayCome(r) == r.next = "value" \/ (r.next \in {"first", "item"} /\ Inside(r, "["))

(* At the next item of an array; elsewhere where the reader is.            *)
At(r, at) == [r EXCEPT !.sections = Append(Front(@), [Last(@) EXCEPT !.at = at, !.n = @ + 1]),
                       !.paths = @ \union {Append(Path([r EXCEPT !.sections = Front(@)]), at)}]

AtItem(r) == IF Inside(r, "[") THEN At(r, ToString(Last(r.sections).n)) ELSE r

After(r) == [r EXCEPT !.next = IF r.sections = << >> THEN "end" ELSE "comma"]

Step(r, token) ==
    CASE token \in {"{", "["} /\ ValueMayCome(r) ->
            [AtItem(r) EXCEPT !.sections = Append(@, [open |-> token, at |-> "", n |-> 0]),
                              !.next = "first"]
      [] token \in {"}", "]"} /\ r.next \in {"first", "comma"}
            /\ Inside(r, IF token = "}" THEN "{" ELSE "[") ->
            After([r EXCEPT !.sections = Front(@)])
      [] token = "," /\ r.next = "comma" -> [r EXCEPT !.next = "item"]
      [] token = ":" /\ r.next = "colon" -> [r EXCEPT !.next = "value"]
      [] token \notin {"{", "[", "}", "]", ",", ":"} /\ ValueMayCome(r) ->
            LET there == AtItem(r)
            IN  After([there EXCEPT !.values = (Path(there) :> token) @@ @])
      [] token \notin {"{", "[", "}", "]", ",", ":"} /\ Inside(r, "{")
            /\ r.next \in {"first", "item"} /\ Path(At(r, token)) \notin r.paths ->
            [At(r, token) EXCEPT !.next = "colon"]
      [] OTHER -> Wrong(r)

ReadAll(out) == FoldLeft(Step, Reader, out)

(* One JSON value, and nothing after it.                                   *)
WellFormed(out) == ReadAll(out).next = "end"
=============================================================================

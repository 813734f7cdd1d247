---------------------------- MODULE ExportFiles ----------------------------
(***************************************************************************)
(* Reading a ChatGPT export, and the platform files that come of files:    *)
(* importers/chatgpt.py (the incremental JSON scanner, the order of the    *)
(* nodes of a conversation, the text of a message), files/library.py       *)
(* (names, duplicates, entries of an archive), api/routes/chat_images.py   *)
(* (images of an answer).                                                  *)
(***************************************************************************)
EXTENDS Integers, FiniteSets, Sequences, SequencesExt, FiniteSetsExt

CONSTANTS
  None    \* Python's None

-----------------------------------------------------------------------------
(***************************************************************************)
(* _iter_json_array_object_strings: a character is one of "[", "]", "{",   *)
(* "}", "q" (a quote), "b" (a backslash), "s" (space), "c" (a comma), "x". *)
(* The text comes in chunks; the state lives across them.                  *)
(***************************************************************************)
ScanStart == [state |-> "before", depth |-> 0, string |-> FALSE, escape |-> FALSE,
              part |-> <<>>, out |-> <<>>]

\* (mutant of ScanObject) a backslash does not escape the quote after it.
ScanObject_NoEscape(s, c) ==
  LET more == [s EXCEPT !.part = Append(@, c)]
  IN IF s.string THEN [more EXCEPT !.string = c # "q"]
     ELSE CASE c = "q" -> [more EXCEPT !.string = TRUE]
            [] c = "{" -> [more EXCEPT !.depth = @ + 1]
            [] c = "}" /\ s.depth = 1 ->
                 [more EXCEPT !.state = "between", !.depth = 0, !.part = <<>>, !.out = Append(@, more.part)]
            [] c = "}" /\ s.depth > 1 -> [more EXCEPT !.depth = @ - 1]
            [] OTHER -> more

ScanObject(s, c) ==
  LET more == [s EXCEPT !.part = Append(@, c)]
  IN IF s.string
     THEN IF s.escape THEN [more EXCEPT !.escape = FALSE]
          ELSE [more EXCEPT !.escape = c = "b", !.string = c # "q"]
     ELSE CASE c = "q" -> [more EXCEPT !.string = TRUE]
            [] c = "{" -> [more EXCEPT !.depth = @ + 1]
            [] c = "}" /\ s.depth = 1 ->
                 [more EXCEPT !.state = "between", !.depth = 0, !.part = <<>>,
                              !.out = Append(@, more.part)]
            [] c = "}" /\ s.depth > 1 -> [more EXCEPT !.depth = @ - 1]
            [] OTHER -> more

Scan(s, c) ==
  CASE s.state = "error" -> s
    [] s.state = "before" ->
         IF c = "s" THEN s ELSE [s EXCEPT !.state = IF c = "[" THEN "between" ELSE "error"]
    [] s.state = "between" ->
         IF c \in {"s", "c"} THEN s
         ELSE IF c = "]" THEN [s EXCEPT !.state = "done"]
         ELSE IF c # "{" THEN [s EXCEPT !.state = "error"]
         ELSE [s EXCEPT !.state = "object", !.depth = 1, !.string = FALSE,
                        !.escape = FALSE, !.part = <<c>>]
    [] s.state = "object" -> ScanObject(s, c)
    [] s.state = "done" -> IF c = "s" THEN s ELSE [s EXCEPT !.state = "error"]

\* The objects that were yielded, and whether the end raised ChatGPTImportError.
ScanText(text) ==
  LET s == FoldLeft(Scan, ScanStart, text) IN [out |-> s.out, whole |-> s.state = "done"]

-----------------------------------------------------------------------------
(***************************************************************************)
(* _ordered_nodes: the branch of current_node, oldest first; without one,  *)
(* every node by creation time, the undated last.                          *)
(***************************************************************************)
\* (mutant of OrderedNodes) the current node first.
OrderedNodes_NewestFirst(parent, current, created) ==
  LET Climb(path, n) ==
        LET up == parent[Last(path)]
        IN IF up \in DOMAIN parent /\ up \notin Range(path) THEN Append(path, up) ELSE path
  IN IF current \in DOMAIN parent THEN FoldLeft(Climb, <<current>>, SetToSeq(DOMAIN parent))
     ELSE SetToSeq(DOMAIN parent)

OrderedNodes(parent, current, created) ==
  LET nodes == DOMAIN parent
      Climb(path, n) ==     \* one more step towards the root; a cycle stops it
        IF path = <<>> THEN path
        ELSE LET up == parent[Last(path)]
             IN IF up \in nodes /\ up \notin Range(path) THEN Append(path, up) ELSE path
      dated == SetToSortSeq({n \in nodes : created[n] # None}, LAMBDA a, b : created[a] < created[b])
  IN IF current \in nodes
     THEN Reverse(FoldLeft(Climb, <<current>>, SetToSeq(nodes)))
     ELSE dated \o SetToSeq({n \in nodes : created[n] = None})

-----------------------------------------------------------------------------
(***************************************************************************)
(* Names and duplicates.  A name is a sequence, which a counter extends;   *)
(* a file is [id, name, original, path, size, sum, crc].                   *)
(***************************************************************************)
\* (mutant of CountedFilename) the first counter, whether or not it is taken.
CountedFilename_First(name, existing) == IF name \notin existing THEN name ELSE Append(name, 1)

CountedFilename(name, existing) ==
  IF name \notin existing THEN name
  ELSE LET free == {n \in 1 .. Cardinality(existing) + 1 : Append(name, n) \notin existing}
       IN Append(name, Min(free))

FindDuplicate(files, name, size, sum, crc) ==
  LET BySum(f) == sum # None /\ f.sum = sum
      ByName(f) == /\ f.size = size /\ name \in {f.name, f.original}
                   /\ crc = None \/ f.crc = None \/ f.crc = crc
      first == SelectSeq(files, BySum) \o SelectSeq(files, ByName)
  IN IF first = <<>> THEN None ELSE Head(first).id

\* register_zip_entries_as_platform_files, for the entries of one archive in
\* their order: [path, base, size, crc, skip], skip for directories and the
\* informational files of an export.
RegisterEntries(files, entries) ==
  LET Add(s, e) ==
        IF e.skip \/ \E n \in DOMAIN s : s[n].path = e.path THEN s
        ELSE Append(s, [id |-> Len(s) + 1, path |-> e.path, original |-> e.base,
                        name |-> CountedFilename(e.base, {s[n].name : n \in DOMAIN s}),
                        size |-> e.size, sum |-> None, crc |-> e.crc,
                        duplicate |-> FindDuplicate(s, e.base, e.size, None, e.crc)])
  IN FoldLeft(Add, files, entries)

\* (mutant of StoreImages) a remote image is stored at every occurrence.
StoreImages_Uncached(images, bad) ==
  LET kept == SelectSeq(images, LAMBDA i : i.url \notin bad /\ i.kind # "local")
  IN [files |-> Len(kept), links |-> [n \in DOMAIN kept |-> n], cache |-> <<>>]

\* save_generated_images_from_markdown: a data image is stored at every
\* occurrence, a remote one once per URL; what cannot be decoded or downloaded,
\* and what is local already, stays as it is.  stored: what replaced each image.
StoreImages(images, bad) ==
  LET Add(s, i) ==
        IF i.url \in bad \/ i.kind = "local" THEN [s EXCEPT !.links = Append(@, None)]
        ELSE IF i.kind = "remote" /\ i.url \in DOMAIN s.cache
        THEN [s EXCEPT !.links = Append(@, s.cache[i.url])]
        ELSE LET id == s.files + 1
             IN [files |-> id, links |-> Append(s.links, id),
                 cache |-> IF i.kind = "remote" THEN [u \in DOMAIN s.cache \cup {i.url} |->
                                                       IF u = i.url THEN id ELSE s.cache[u]]
                           ELSE s.cache]
      data == SelectSeq(images, LAMBDA i : i.kind = "data")
      remote == SelectSeq(images, LAMBDA i : i.kind # "data")
  IN FoldLeft(Add, [files |-> 0, links |-> <<>>, cache |-> <<>>], data \o remote)
=============================================================================

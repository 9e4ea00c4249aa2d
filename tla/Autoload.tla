------------------------------ MODULE Autoload -------------------------------
(***************************************************************************)
(* What the generated autoloader loads (internal/autoload, and the adapter *)
(* and mergeRootAutoload of orchestrator/pipeline.go): the classes found   *)
(* in a PHP file, the class map, the PSR-4 directories and the files that  *)
(* are always included.                                                    *)
(*                                                                         *)
(* A PHP file is the sequence of its significant tokens: the keywords and  *)
(* brackets the scanner looks at, identifiers, the "$" of a variable, and   *)
(* "other".  A path is the sequence of its segments.  An owner is the root *)
(* or a package: [name, version, aliases, dir, psr4, classmap, files,      *)
(* exclude].  A name is its position in the alphabet.                      *)
(***************************************************************************)
EXTENDS Integers, Sequences, SequencesExt

CONSTANTS
  Identifier,   \* the identifiers of the files
  Globs         \* for each segment of a pattern, the names it matches

ClassLike == {"class", "interface", "trait", "enum"}
Keyword == ClassLike \cup {"namespace", "use", "new", "final"}
IsIdent(t) == t \in Keyword \cup Identifier

-----------------------------------------------------------------------------
(* scanClasses *)

Start == [mode |-> "html", ns |-> <<>>, outer |-> <<>>, depth |-> 0, prev |-> "other",
          nested |-> 0, parts |-> <<>>, found |-> <<>>]

InCode(s, prev) == [s EXCEPT !.mode = "code", !.prev = prev]

OpenBrace(s) == [InCode(s, "other") EXCEPT !.depth = @ + 1]


\* The brace that closes "namespace X {" was not counted when it was opened.
CloseBrace(s) ==
  IF s.outer # <<>> /\ s.depth <= 0
  THEN [InCode(s, "other") EXCEPT !.ns = Last(s.outer), !.outer = Front(@), !.depth = 0]
  ELSE [InCode(s, "other") EXCEPT !.depth = @ - 1]

Code(s, t) ==
  CASE t = "?>" -> [s EXCEPT !.mode = "html", !.prev = "other"]
    [] t = "namespace" -> [s EXCEPT !.mode = "namespace", !.parts = <<>>]
    [] t = "use" -> [s EXCEPT !.mode = "use", !.nested = 0]
    [] t \in ClassLike -> IF s.prev = "new" THEN InCode(s, "ident") ELSE [s EXCEPT !.mode = "declaration"]
    [] t = "new" -> InCode(s, "new")
    [] t = "{" -> OpenBrace(s)
    [] t = "}" -> CloseBrace(s)
    [] OTHER -> InCode(s, IF IsIdent(t) THEN "ident" ELSE "other")

\* readNamespaceName
Namespace(s, t) ==
  CASE t = ";" -> [InCode(s, "ident") EXCEPT !.ns = s.parts]
    [] t = "{" -> [InCode(s, "ident") EXCEPT !.ns = s.parts, !.outer = Append(@, s.ns)]
    [] t = "\\" -> s
    [] IsIdent(t) -> [s EXCEPT !.parts = Append(@, t)]
    [] OTHER -> [s EXCEPT !.mode = "error"]

\* skipUseStatement: to the next semicolon outside braces.
Use(s, t) ==
  CASE t = "{" -> [s EXCEPT !.nested = @ + 1]
    [] t = "}" -> [s EXCEPT !.nested = @ - 1]
    [] t = ";" /\ s.nested <= 0 -> InCode(s, "other")
    [] OTHER -> s

\* readDeclName: without a name after it the keyword declares nothing.
Declaration(s, t) ==
  IF IsIdent(t) THEN [InCode(s, "ident") EXCEPT !.found = Append(@, Append(s.ns, t))]
  ELSE Code(InCode(s, "ident"), t)

Scanned(s, t) ==
  CASE s.mode = "html" -> IF t = "<?" THEN [s EXCEPT !.mode = "code"] ELSE s
    [] s.mode = "code" -> Code(s, t)
    [] s.mode = "namespace" -> Namespace(s, t)
    [] s.mode = "use" -> Use(s, t)
    [] s.mode = "declaration" -> Declaration(s, t)
    [] s.mode = "error" -> s

\* The qualified names of a file in source order, or an error.
scanClasses(tokens) ==
  LET s == FoldLeft(Scanned, Start, tokens)
  IN IF s.mode \in {"error", "namespace"} THEN [ok |-> FALSE, classes |-> <<>>]
     ELSE [ok |-> TRUE, classes |-> s.found]

-----------------------------------------------------------------------------
(* exclude-from-classmap *)

\* Fault: "**" stands for one segment at most.
MatchesOneSegment(pattern, path) ==
  LET P == Len(pattern.segs)
      N == Len(path)
      matches[i \in 1..(P + 1), j \in 1..(N + 1)] ==
        CASE i > P -> j > N \/ pattern.dirOnly
          [] i <= P /\ pattern.segs[i] = "**" -> \E k \in {j, j + 1} \cap 1..(N + 1) : matches[i + 1, k]
          [] OTHER -> j <= N /\ path[j] \in Globs[pattern.segs[i]] /\ matches[i + 1, j + 1]
  IN matches[1, 1]

\* globToRegexp: "**" stands for any number of segments, at least one at the end
\* of a longer pattern; a pattern for a directory also matches what is in it.
MatchesPattern(pattern, path) ==
  LET P == Len(pattern.segs)
      N == Len(path)
      matches[i \in 1..(P + 1), j \in 1..(N + 1)] ==
        CASE i > P -> j > N \/ pattern.dirOnly
          [] i <= P /\ pattern.segs[i] = "**" ->
               IF i = P THEN i = 1 \/ j <= N ELSE \E k \in j..(N + 1) : matches[i + 1, k]
          [] OTHER -> j <= N /\ path[j] \in Globs[pattern.segs[i]] /\ matches[i + 1, j + 1]
  IN matches[1, 1]

Excluded(owner, path) == \E p \in owner.exclude : MatchesPattern(p, path)

-----------------------------------------------------------------------------
(* The tables.  tree: what is on disk in walking order, [path, isDir, tokens]; *)
(* a directory that holds something need not be an entry of its own.           *)

Under(path, base) == IsPrefix(base, path)

\* The files one classmap entry stands for, all of them PHP files.
FilesOf(tree, owner, entry) ==
  SelectSeq(tree, LAMBDA f : ~f.isDir /\ Under(f.path, owner.dir \o entry) /\ ~Excluded(owner, f.path))

\* Fault: the last declaration counts.
ScanFileOver(map, file) ==
  FoldLeft(LAMBDA m, c : [x \in DOMAIN m \cup {c} |-> IF x = c THEN file.path ELSE m[x]],
           map, scanClasses(file.tokens).classes)

\* Of two files that declare a class the first counts.
ScanFileInto(map, file) ==
  FoldLeft(LAMBDA m, c : [x \in DOMAIN m \cup {c} |-> IF x \in DOMAIN m THEN m[x] ELSE file.path],
           map, scanClasses(file.tokens).classes)

\* CollectClassmap: packages in the order of the lock, then the root.  A missing
\* entry or a file that cannot be scanned fails the whole, an empty directory not.
ClassmapFiles(tree, owners) ==
  FlattenSeq([i \in DOMAIN owners |->
    FlattenSeq([j \in DOMAIN owners[i].classmap |-> FilesOf(tree, owners[i], owners[i].classmap[j])])])

ClassmapOk(tree, owners) ==
  /\ \A i \in DOMAIN owners : \A e \in ToSet(owners[i].classmap) :
       \E f \in ToSet(tree) : Under(f.path, owners[i].dir \o e)
  /\ \A f \in ToSet(ClassmapFiles(tree, owners)) : scanClasses(f.tokens).ok

CollectClassmap(tree, root, packages) ==
  FoldLeft(ScanFileInto, <<>>, ClassmapFiles(tree, Append(packages, root)))

\* Fault: a directory that is named twice is listed twice.
appendAgain(s, x) == Append(s, x)

appendUnique(s, x) == IF Contains(s, x) THEN s ELSE Append(s, x)

\* CollectPSR4: the root first, then the packages in the order of the lock.
CollectPSR4(root, packages) ==
  LET owners == <<root>> \o packages
      Dirs(prefix) ==
        FlattenSeq([i \in DOMAIN owners |->
          IF prefix \notin DOMAIN owners[i].psr4 THEN <<>>
          ELSE [j \in DOMAIN owners[i].psr4[prefix] |-> owners[i].dir \o owners[i].psr4[prefix][j]]])
  IN [prefix \in UNION {DOMAIN owners[i].psr4 : i \in DOMAIN owners} |->
        FoldLeft(appendUnique, <<>>, Dirs(prefix))]

\* CollectFiles: packages by name, then the root; of two the first counts.
CollectFiles(root, byName) ==
  LET owners == Append(byName, root)
  IN FoldLeft(appendUnique, <<>>,
       FlattenSeq([i \in DOMAIN owners |->
         [j \in DOMAIN owners[i].files |-> owners[i].dir \o owners[i].files[j]]]))

\* mergeRootAutoload: a prefix of autoload-dev replaces the one of autoload.
mergeRootAutoload(base, dev) ==
  [base EXCEPT !.psr4 = [p \in DOMAIN base.psr4 \cup DOMAIN dev.psr4 |->
                           IF p \in DOMAIN dev.psr4 THEN dev.psr4[p] ELSE base.psr4[p]],
               !.files = @ \o dev.files, !.classmap = @ \o dev.classmap,
               !.exclude = @ \cup dev.exclude]

\* installedData and normalizeInstalled: what InstalledVersions knows, by name.
Installed(packages, dev) ==
  [i \in DOMAIN packages |->
     [name |-> packages[i].name, version |-> packages[i].version, aliases |-> packages[i].aliases, dev |-> dev]]

InstalledOk(root, installed) ==
  LET names == <<root.name>> \o [i \in DOMAIN installed |-> installed[i].name] IN IsInjective(names)

ByName(s) == SortSeq(s, LAMBDA p, q : p.name < q.name)

InstalledVersions == <<"Composer", "InstalledVersions">>

\* Generate, as autoloaderAdapter calls it: what vendor/composer/*.php says.
Generate(tree, base, dev, packages, packagesDev, includeDev) ==
  LET root == IF includeDev THEN mergeRootAutoload(base, dev) ELSE base
      all == IF includeDev THEN packages \o packagesDev ELSE packages
      installed == Installed(packages, FALSE) \o IF includeDev THEN Installed(packagesDev, TRUE) ELSE <<>>
      classmap == CollectClassmap(tree, root, all)
  IN [ok |-> ClassmapOk(tree, Append(all, root)) /\ InstalledOk(root, installed),
      classmap |-> [c \in DOMAIN classmap \cup {InstalledVersions} |->
                      IF c = InstalledVersions THEN <<"vendor", "composer", "InstalledVersions">> ELSE classmap[c]],
      psr4 |-> CollectPSR4(root, all),
      files |-> CollectFiles(root, ByName(all)),
      installed |-> ByName(installed)]

-----------------------------------------------------------------------------
(* Properties *)

(* A piece is [tokens, declares]; a section [form, ns, pieces] is what is   *)
(* under one namespace; a file is a sequence of sections of one form.       *)
SectionTokens(s) ==
  LET body == FlattenSeq([i \in DOMAIN s.pieces |-> s.pieces[i].tokens])
      name == FlattenSeq([i \in DOMAIN s.ns |-> IF i = 1 THEN <<s.ns[i]>> ELSE <<"\\", s.ns[i]>>])
  IN CASE s.form = "none" -> body
       [] s.form = "statement" -> <<"namespace">> \o name \o <<";">> \o body
       [] s.form = "braces" -> <<"namespace">> \o name \o <<"{">> \o body \o <<"}">>

Rendered(sections) == <<"html", "<?">> \o FlattenSeq([i \in DOMAIN sections |-> SectionTokens(sections[i])])

Declared(sections) ==
  FlattenSeq([i \in DOMAIN sections |->
    FlattenSeq([j \in DOMAIN sections[i].pieces |->
      [k \in DOMAIN sections[i].pieces[j].declares |->
         Append(IF sections[i].form = "none" THEN <<>> ELSE sections[i].ns, sections[i].pieces[j].declares[k])]])])

\* What the scanner takes for something else: a variable named as a keyword, a
\* trait use with braces, and an anonymous class behind a modifier.
Misread(tokens) ==
  \E i \in 1..(Len(tokens) - 2) :
    \/ tokens[i] = "$" /\ tokens[i + 1] \in Keyword
    \/ tokens[i] = "use" /\ IsIdent(tokens[i + 1]) /\ tokens[i + 2] = "{"
    \/ tokens[i] = "new" /\ tokens[i + 1] = "final"

\* The sections up to the first piece that is misread.
ReadWell(sections) ==
  LET Bad(s) == SelectInSeq(s.pieces, LAMBDA p : Misread(p.tokens))
      bad == SelectInSeq(sections, LAMBDA s : Bad(s) # 0)
  IN IF bad = 0 THEN sections
     ELSE Append(SubSeq(sections, 1, bad - 1),
                 [sections[bad] EXCEPT !.pieces = SubSeq(@, 1, Bad(sections[bad]) - 1)])

(* The scanner finds the declarations of a file and nothing else, unless it *)
(* misreads a piece; then it still finds what is declared before that piece *)
(* when it does not give up.                                                *)
ScanIsExact(sections) ==
  LET scan == scanClasses(Rendered(sections))
      sure == Declared(ReadWell(sections))
  IN IF ReadWell(sections) = sections THEN scan = [ok |-> TRUE, classes |-> sure]
     ELSE scan.ok => IsPrefix(sure, scan.classes)

(* Every class of the class map is declared by the file it points to, that  *)
(* file belongs to an installed owner that does not exclude it, and no file *)
(* of an earlier owner declares the class.                                  *)
ClassmapIsFirstDeclaration(tree, owners, map) ==
  LET Declares(f, c) == c \in ToSet(scanClasses(f.tokens).classes)
      Offered(i, f) == f \in UNION {ToSet(FilesOf(tree, owners[i], e)) : e \in ToSet(owners[i].classmap)}
      Offers(i, c) == \E f \in ToSet(tree) : Offered(i, f) /\ Declares(f, c)
  IN /\ \A c \in DOMAIN map :
          \E i \in DOMAIN owners : \E f \in ToSet(tree) :
            /\ f.path = map[c] /\ Offered(i, f) /\ Declares(f, c)
            /\ \A h \in 1..(i - 1) : ~Offers(h, c)
     /\ \A i \in DOMAIN owners : \A f \in ToSet(tree) : \A c \in ToSet(scanClasses(f.tokens).classes) :
          Offered(i, f) => c \in DOMAIN map

(* A pattern that begins with a double star excludes a file wherever its    *)
(* package is installed.                                                    *)
FloatingPatternsFloat(pattern, dir, path) ==
  pattern.segs[1] = "**" /\ MatchesPattern(pattern, path) => MatchesPattern(pattern, dir \o path)

\* What is left of the root's autoload when its autoload-dev counts: a prefix it
\* declares again has its directories alone, those of autoload are dropped.
WithoutRedeclared(root, dev) ==
  [root EXCEPT !.psr4 = [p \in DOMAIN root.psr4 \ DOMAIN dev.psr4 |-> root.psr4[p]]]

(* Each directory and file an owner of the list declares is loaded, once,   *)
(* and nothing else.                                                        *)
LoadsWhatIsInstalled(generated, owners) ==
  LET OwnPrefixes == UNION {DOMAIN owners[i].psr4 : i \in DOMAIN owners}
      DirsOf(prefix) == UNION {{owners[i].dir \o d : d \in ToSet(owners[i].psr4[prefix])} :
                                 i \in {j \in DOMAIN owners : prefix \in DOMAIN owners[j].psr4}}
      OwnFiles == UNION {{owners[i].dir \o f : f \in ToSet(owners[i].files)} : i \in DOMAIN owners}
  IN /\ DOMAIN generated.psr4 = OwnPrefixes
     /\ \A prefix \in OwnPrefixes :
          /\ ToSet(generated.psr4[prefix]) = DirsOf(prefix)
          /\ IsInjective(generated.psr4[prefix])
     /\ ToSet(generated.files) = OwnFiles
     /\ IsInjective(generated.files)
===============================================================================

\* Five tools; two tables; a file of up to three bytes, read in blocks of one byte
\* and of more than the cap; a tree of three levels.
SPECIFICATION Spec
CONSTANTS
    ls = ls  read = read  reread = reread  done_task = done_task  head = head
    t1 = t1  t2 = t2
    src = src  main = main  lib = lib  link = link
    Tool = {ls, read, reread, done_task, head}
    NameOf <- MCNameOf
    Place <- MCPlace
    Score <- MCScore
    AlwaysShow = {read, reread, done_task}
    MaxListed = 1
    Builtin = {"string", "math"}
    Table = {t1, t2}
    Contents <- MCContents
    Arguments <- MCArguments
    MaxDepth = 1
    Path = {"", "elsewhere"}
    FilePath = "file"
    Blocks = {1, 3}
    Default = 4
    Cap = 2
    Sizes = {1, 3}
    MaxWrites = 2
    Node = {src, main, lib, link}
    Root = Root
    Parent <- MCParent
    Kind <- MCKind
    Depths = {0, 1, 2, 3}
INVARIANTS
    ListedToolsAreCallable
    JsonIsOfTheValue
    ReaderGetsWhatWasThere
    ListsWhatIsAbove
PROPERTY ScriptEnds
CHECK_DEADLOCK FALSE

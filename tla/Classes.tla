------------------------------ MODULE Classes ------------------------------
(* Classes, modules and instances (object.c, runtime.c, vm.c): where a method, *)
(* a getter, a setter or a constant is found, and what `this` is.  Operators   *)
(* on the machine's record M, of which they use:                               *)
(*   classes     of each class or module its superclass, the one it was        *)
(*               defined under and its tables; a class is named by its path    *)
(*   consts      the constants, each under its owner, "" at the top            *)
(*   objects     the class of each instance; none is freed here                *)
(*   klass       the class or module a function was defined in                 *)
(*   this, thisStack, crefs   th->thisObj, v_thisStack and v_crefStack         *)
(* A module is never mixed into a class here.                                  *)
EXTENDS Sequences, SequencesExt, TLC

Nil == <<"nil">>
Fail(M, how) == [M EXCEPT !.status = IF @ = "run" THEN how ELSE @]

NoMethod == <<"none">>
NoTable == [x \in {} |-> NoMethod]
ClassInfo(super, under) ==
    [super |-> super, under |-> under, method |-> NoTable, getter |-> NoTable, setter |-> NoTable]

\* The classes there are, with those of their C functions that are modelled.
BlockErrors == {"BlockBreakError", "BlockContinueError", "BlockReturnError"}
ErrorClasses == {"Error", "TypeError", "NameError", "ArgumentError"} \union BlockErrors
Natives == [Object |-> {"init", "methodMissing", "opEquals"}, Error |-> {"init"}, Class |-> {"methodAdded"},
            Array |-> {"each", "opIndexGet", "opEquals"},
            String |-> {"opAdd", "opMul", "opIndexGet", "opEquals"}, Block |-> {"yield"}, Module |-> {}]
NativeMethods == {<<"native", x>> : x \in UNION {Natives[c] : c \in DOMAIN Natives}}
BaseClasses ==
    [c \in DOMAIN Natives \union ErrorClasses |->
        [ClassInfo(CASE c = "Object" -> "" [] c \in ErrorClasses \ {"Error"} -> "Error" [] OTHER -> "Object", "") EXCEPT
            !.method = [x \in IF c \in DOMAIN Natives THEN Natives[c] ELSE {} |-> <<"native", x>>]]]
BaseConsts == [p \in {""} \X (DOMAIN BaseClasses \ BlockErrors) |-> <<"class", p[2]>>]

\* A class and its superclasses.
Chain(M, c) ==
    LET chain[x \in DOMAIN M.classes \union {""}] == IF x = "" THEN <<>> ELSE <<x>> \o chain[M.classes[x].super]
    IN  chain[c]
IsSubclassExact(M, c, d) == c = d
IsSubclass(M, c, d) == Contains(Chain(M, c), d)

\* What has a class: an instance, which is all that has fields and methods.
ClassOf(M, v) ==
    CASE v[1] = "obj" -> M.objects[v[2]] [] v[1] = "error" -> v[2]
      [] v[1] = "class" -> "Class" [] v[1] = "module" -> "Module" [] v[1] = "array" -> "Array"
      [] v[1] = "str" -> "String" [] v[1] = "block" -> "Block" [] OTHER -> ""
IsInstanceLike(M, v) == ClassOf(M, v) # ""

\* The singleton class of a class, a module or an instance, made when it is needed.
NameOf(v) == IF v[1] = "obj" THEN "#" \o ToString(v[2]) ELSE v[2]
Meta(v) == NameOf(v) \o " (meta)"
HasMeta(M, v) == v[1] \in {"class", "module", "obj"} /\ Meta(v) \in DOMAIN M.classes
MetaSuper(M, v) ==
    CASE v[1] = "class" -> M.classes[v[2]].super [] v[1] = "module" -> "Class" [] v[1] = "obj" -> ClassOf(M, v)
SingletonClass(M, v) ==
    IF HasMeta(M, v) THEN M ELSE [M EXCEPT !.classes = (Meta(v) :> ClassInfo(MetaSuper(M, v), "")) @@ @]
LookupStart(M, v) == IF HasMeta(M, v) THEN Meta(v) ELSE ClassOf(M, v)

-----------------------------------------------------------------------------
\* The first of the classes whose table of that kind has the name.
FindIn(M, chain, kind, name) ==
    LET having == SelectSeq(chain, LAMBDA c : name \in DOMAIN M.classes[c][kind])
    IN  IF having = <<>> THEN NoMethod ELSE M.classes[Head(having)][kind][name]
FindMethod(M, v, name) == FindIn(M, Chain(M, LookupStart(M, v)), "method", name)
FindSetter(M, v, name) == FindIn(M, Chain(M, LookupStart(M, v)), "setter", name)
FindGetter(M, v, name) ==
    FindIn(M, (IF HasMeta(M, v) THEN <<Meta(v)>> ELSE <<>>) \o Chain(M, ClassOf(M, v)), "getter", name)
\* The class methods of the superclasses too, then the methods of Class.
FindStatic(M, v, name) ==
    LET metas == SelectSeq([i \in DOMAIN Chain(M, v[2]) |-> Meta(<<"class", Chain(M, v[2])[i]>>)],
                           LAMBDA c : c \in DOMAIN M.classes)
    IN  FindIn(M, metas \o Chain(M, ClassOf(M, v)), "method", name)
FindCallable(M, v, name) == IF v[1] \in {"class", "module"} THEN FindStatic(M, v, name) ELSE FindMethod(M, v, name)

\* lookupMethod for super: above the class the function was defined in.
FindAbove(M, v, class, kind, name) ==
    FindIn(M, SelectSeq(Chain(M, IF class = ClassOf(M, v) THEN LookupStart(M, v) ELSE class), LAMBDA c : c # class),
           kind, name)

-----------------------------------------------------------------------------
\* A constant is looked for in a class and its superclasses, then the same way
\* in those it was defined under, then at the top.
Cref(M) == IF M.crefs = <<>> THEN "" ELSE Last(M.crefs)
Scopes(M, c) ==
    LET scopes[x \in DOMAIN M.classes \union {""}] ==
            IF x = "" THEN <<"">> ELSE Chain(M, x) \o scopes[M.classes[x].under]
    IN  scopes[c]
FindConstantUnder(M, c, name) ==
    LET under == SelectSeq(Scopes(M, c), LAMBDA o : <<o, name>> \in DOMAIN M.consts)
    IN  IF under = <<>> THEN NoMethod ELSE M.consts[<<Head(under), name>>]
\* Of a name of several parts the others are each the constant of the one before.
Own(M, owner, name) == IF <<owner, name>> \in DOMAIN M.consts THEN M.consts[<<owner, name>>] ELSE NoMethod
FindQualified(M, c, parts) ==
    FoldLeft(LAMBDA v, x : IF v[1] \in {"class", "module"} THEN Own(M, v[2], x) ELSE NoMethod,
             FindConstantUnder(M, c, Head(parts)), Tail(parts))
AddConstantUnder(M, owner, name, val) ==
    [M EXCEPT !.consts = (<<owner, name>> :> val) @@ @,
              !.classes = IF val[1] = "class" /\ owner # "" THEN [@ EXCEPT ![val[2]].under = owner] ELSE @]

\* A new class or module becomes a constant of the one being defined.
PathOf(owner, name) == IF owner = "" THEN name ELSE owner \o "::" \o name
NewClass(M, kind, name, super) ==
    LET path == PathOf(Cref(M), name)
    IN  AddConstantUnder([M EXCEPT !.classes = (path :> ClassInfo(super, Cref(M))) @@ @],
                         Cref(M), name, <<kind, path>>)
\* The function, of whatever kind, belongs to the class from now on: it is the
\* function that keeps it, not its closure.  A class method is kept in the
\* singleton class and belongs to the class.
Define(M, class, kind, name, clo) ==
    [M EXCEPT !.classes[class[2]] = [@ EXCEPT ![kind] = (name :> clo) @@ @], !.klass[clo[2]] = class]
DefineStatic(M, class, name, clo) ==
    LET s == SingletonClass(M, class)
    IN  [s EXCEPT !.classes[Meta(class)] = [@ EXCEPT !.method = (name :> clo) @@ @], !.klass[clo[2]] = class]

-----------------------------------------------------------------------------
\* Entering and leaving a method, or the body of a class.
PushThis(M, v) == [M EXCEPT !.this = v, !.thisStack = Append(@, v)]
PopThis(M) ==
    IF M.thisStack = <<>> THEN Fail(M, "assert")
    ELSE LET rest == Front(M.thisStack)
         IN  [M EXCEPT !.thisStack = rest, !.this = IF rest = <<>> THEN Nil ELSE Last(rest)]
PushCref(M, c) == [M EXCEPT !.crefs = Append(@, c)]
PopCref(M) == IF M.crefs = <<>> THEN Fail(M, "assert") ELSE [M EXCEPT !.crefs = Front(@)]
=============================================================================

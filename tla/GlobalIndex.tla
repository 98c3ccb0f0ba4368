---------------------------- MODULE GlobalIndex ----------------------------
(***************************************************************************)
(* The order in which the WGSL front end lowers the global declarations    *)
(* (naga/src/front/wgsl/index.rs): Index::generate maps each name to its   *)
(* declaration and DependencySolver sorts the declarations depth first.    *)
(* The recursion of dfs is a stack of dfsCalls, and one action is one turn   *)
(* of its loop.  The names and the references of a program are chosen at   *)
(* the start; a reference keeps the name and not the place it occurs at.   *)
(***************************************************************************)
EXTENDS Naturals, Sequences, FiniteSets

CONSTANTS
    Decls,    \* number of declarations of the translation unit
    Names,    \* number of names that its declarations have or refer to
    Naming    \* the ways to name them, from declarations to names or Unnamed

ASSUME GlobalIndexAssumption == Decls \in Nat /\ Names \in Nat

Decl == 1 .. Decls
Name == 1 .. Names
Unnamed == 0   \* decl_ident(decl) is None

VARIABLES
    nameOf,       \* decl_ident of each declaration
    refs,         \* GlobalDecl::dependencies of each, distinct names in order
    root,         \* the declaration that solve looks at
    dfsCalls,       \* the calls of dfs in progress: [decl, dep], dep the reference
                  \* each is at
    visited, tempVisited, path, out,   \* DependencySolver
    result        \* "running", "Ok", or the error that generate returns

indexVars == <<nameOf, refs, root, dfsCalls, visited, tempVisited, path, out, result>>

(* A reference to a name is listed once, at the place it first occurs.     *)
References ==
    UNION {{s \in [1 .. n -> Name] : \A i, j \in 1 .. n : i # j => s[i] # s[j]} : n \in 0 .. Names}

Globals == {d \in Decl : nameOf[d] # Unnamed}
Redefined == \E d, e \in Globals : d # e /\ nameOf[d] = nameOf[e]

IndexInit ==
    /\ nameOf \in Naming /\ refs \in [Decl -> References]
    /\ root = 1 /\ dfsCalls = <<>> /\ path = <<>> /\ out = <<>>
    /\ visited = {} /\ tempVisited = {}
    /\ result = IF Redefined THEN "Redefinition" ELSE "running"

Resolved(name) == {d \in Globals : nameOf[d] = name}
Frame(d) == [decl |-> d, dep |-> 1]
Current == dfsCalls[Len(dfsCalls)]
Callers == SubSeq(dfsCalls, 1, Len(dfsCalls) - 1)
PopPath == SubSeq(path, 1, Len(path) - 1)
NextReference(stack) == [stack EXCEPT ![Len(stack)].dep = @ + 1]
Returned(stack) == IF stack = <<>> THEN stack ELSE NextReference(stack)
Reference == refs[Current.decl][Current.dep]

(* solve's loop *)
NextRoot ==
    /\ result = "running" /\ dfsCalls = <<>> /\ root <= Decls
    /\ root' = root + 1
    /\ IF root \in visited
       THEN UNCHANGED <<dfsCalls, tempVisited>>
       ELSE /\ dfsCalls' = <<Frame(root)>>
            /\ tempVisited' = tempVisited \union {root}
    /\ UNCHANGED <<nameOf, refs, visited, path, out, result>>

Solved ==
    /\ result = "running" /\ dfsCalls = <<>> /\ root > Decls
    /\ result' = "Ok"
    /\ UNCHANGED <<nameOf, refs, root, dfsCalls, visited, tempVisited, path, out>>

AtReference == result = "running" /\ dfsCalls # <<>> /\ Current.dep <= Len(refs[Current.decl])

(* An identifier that names no declaration may be predeclared. *)
SkipUnresolved ==
    /\ AtReference /\ Resolved(Reference) = {}
    /\ dfsCalls' = NextReference(dfsCalls)
    /\ UNCHANGED <<nameOf, refs, root, visited, tempVisited, path, out, result>>

Descend ==
    /\ AtReference
    /\ \E d \in Resolved(Reference) :
          /\ d \notin tempVisited /\ d \notin visited
          /\ path' = Append(path, d)
          /\ dfsCalls' = Append(dfsCalls, Frame(d))
          /\ tempVisited' = tempVisited \union {d}
    /\ UNCHANGED <<nameOf, refs, root, visited, out, result>>

SkipVisited ==
    /\ AtReference
    /\ Resolved(Reference) \intersect tempVisited = {}
    /\ Resolved(Reference) \intersect visited # {}
    /\ dfsCalls' = NextReference(dfsCalls)
    /\ UNCHANGED <<nameOf, refs, root, visited, tempVisited, path, out, result>>

FindCycle ==
    /\ AtReference
    /\ \E d \in Resolved(Reference) \intersect tempVisited :
          /\ path' = Append(path, d)
          /\ result' = IF d = Current.decl THEN "RecursiveDeclaration" ELSE "CyclicDeclaration"
    /\ UNCHANGED <<nameOf, refs, root, dfsCalls, visited, tempVisited, out>>

(* the end of dfs, and the caller's path.pop *)
Unmarked_Kept(d) == tempVisited   \* wrong: left marked
Unmarked(d) == tempVisited \ {d}
Leave ==
    /\ result = "running" /\ dfsCalls # <<>> /\ Current.dep > Len(refs[Current.decl])
    /\ tempVisited' = Unmarked(Current.decl)
    /\ out' = Append(out, Current.decl)
    /\ visited' = visited \union {Current.decl}
    /\ dfsCalls' = Returned(Callers)
    /\ path' = IF Callers = <<>> THEN path ELSE PopPath
    /\ UNCHANGED <<nameOf, refs, root, result>>

IndexNext == NextRoot \/ Solved \/ SkipUnresolved \/ Descend \/ SkipVisited \/ FindCycle \/ Leave

IndexSpec == IndexInit /\ [][IndexNext]_indexVars

-----------------------------------------------------------------------------
Uses(d) == UNION {Resolved(refs[d][i]) : i \in DOMAIN refs[d]}
Within[n \in Nat] ==
    IF n = 0 THEN [d \in Decl |-> Uses(d)]
    ELSE [d \in Decl |-> Within[n - 1][d] \union UNION {Uses(e) : e \in Within[n - 1][d]}]
Reaches == Within[Decls]
Cyclic == \E d \in Decl : d \in Reaches[d]

(* The references that the search is following, from the root *)
Chain == <<dfsCalls[1].decl>> \o path

(* The declarations come out each once and after all that they use; a
   program is refused for a cycle only when its references have one, and the
   path that the error reports is a chain of references that comes back to a
   declaration it has passed. *)
OrderSound ==
    /\ \A i \in DOMAIN out : Uses(out[i]) \subseteq {out[j] : j \in 1 .. (i - 1)}
    /\ result = "Ok" =>
          /\ ~Cyclic
          /\ Len(out) = Decls /\ \A d \in Decl : \E i \in DOMAIN out : out[i] = d
    /\ result \in {"RecursiveDeclaration", "CyclicDeclaration"} =>
          /\ \A i \in 1 .. (Len(Chain) - 1) : Chain[i + 1] \in Uses(Chain[i])
          /\ \E i \in 1 .. (Len(Chain) - 1) :
                /\ Chain[i] = Chain[Len(Chain)]
                /\ result = "RecursiveDeclaration" <=> i = Len(Chain) - 1
=============================================================================

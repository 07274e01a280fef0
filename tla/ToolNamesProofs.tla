--------------------------- MODULE ToolNamesProofs ---------------------------
(***************************************************************************)
(* The safety properties of ToolNames for any servers, tools, pods and     *)
(* requests, when providers give their tools plain names.                  *)
(*                                                                         *)
(* The names of different tools differ (OneOwner), so that whatever a name *)
(* reaches is the tool that owns it; what is left is that a name was first *)
(* offered for the tool that owns it, or is the alias of a stored name and *)
(* means what that name meant (Meanings).                                  *)
(***************************************************************************)
EXTENDS ToolNames, TLAPS, SequenceTheorems, FiniteSetTheorems

\* what a stored name is taken for, and an alias of the registry by its parts
Stored(m) == Tool("mcp", "stored", m, m)
AliasOf(b, k, o) == b \o <<Void, k, Void, o>>
StoredAlias(m) == AliasOf(m, "mcp", "stored")

Record == {FrontendTool(b) : b \in Frontend}
BuiltIns == {LocalTool(b) : b \in Local}

\* the tools that are carried out somewhere: servers', the client's, built-in ones
Real(R) == FetchedTools(configured) \cup R \cup BuiltIns

\* n is a name of t, as a canonical name or as an alias of the registry
Owns(R, t, n) ==
  \/ n = Alias(t)
  \/ t.kind = "mcp" /\ n = t.given /\ ~ IsFrontend(n, R)
  \/ t.kind = "agui" /\ n \in {t.base, t.given}
  \/ t.kind = "local" /\ n = t.given

\* n was offered for a stored name, which collided
Derived(n) == \E m \in DOMAIN meaning : n = StoredAlias(m) /\ meaning[n] = meaning[m]

\* what holds of the names offered so far, in every segment and between them
Meanings(R) ==
  \A n \in DOMAIN meaning :
    /\ n \in Seq(Part)
    /\ meaning[n] \in Real(R)
    /\ Derived(n) \/ Owns(R, meaning[n], n)

\* m is taken for an MCP tool's when it is read back
Storable(R, m) ==
  /\ m \in DOMAIN meaning
  /\ ~ (Len(m) > 1 /\ m[Len(m)] = Namespace)
  /\ ~ IsLocal(m)
  /\ ~ IsFrontend(m, R)

\* a fresh run's segment has tools of the pod, a resumed one's has stored names
FirstTools(R) ==
  /\ run.tools \subseteq Real(R)
  /\ DOMAIN meaning = DOMAIN run.offers

RebuiltTools(R) ==
  \A t \in run.tools :
    t \in R \cup BuiltIns \/ \E m \in DOMAIN meaning : Storable(R, m) /\ t = Stored(m)

Bound(t) == \E b \in Local \ (Blocked(run.mode) \cup Unbound(run.output)) : t = LocalTool(b)

\* an offered name means the tool it is offered for
Meant(offers) ==
  \A n \in DOMAIN offers :
    meaning[n] = IF offers[n].owner = "stored" THEN meaning[offers[n].given] ELSE offers[n]

\* what holds of a segment
Segmented ==
  LET R == run.records IN
  /\ run.pod \in Pod
  /\ run.offers = Offers(run.tools)
  /\ R \subseteq run.tools
  /\ DOMAIN run.offers \subseteq DOMAIN meaning
  /\ FirstTools(R) \/ RebuiltTools(R)
  /\ \A t \in run.tools : t.kind = "local" => Bound(t)
  /\ Meant(run.offers)

\* what holds of the latest call
Answered ==
  last # NoCall =>
    /\ last.name \in DOMAIN meaning
    /\ \A t \in last.offered : t.owner = "stored" => t.given \in DOMAIN meaning

\* what holds whatever the latest call was
Sound ==
  /\ configured \subseteq Server
  /\ live \in [Pod -> SUBSET configured]
  /\ run.status \in {"none", "over", "running", "paused"}
  /\ run.status \in {"none", "over"} => meaning = <<>>
  /\ run.status # "running" => last = NoCall
  /\ run.status \in {"running", "paused"} => run.records \subseteq Record /\ Meanings(run.records)
  /\ run.status = "running" => Segmented
  /\ run.status = "paused" => run.names \subseteq DOMAIN meaning

----------------------------------------------------------------------------
(* Names.                                                                  *)

\* The parts the code adds.
LEMMA Parts ==
  /\ Void \in Part /\ "mcp" \in Part /\ "agui" \in Part /\ "local" \in Part
  /\ "stored" \in Part /\ "frontend" \in Part /\ "AGUI-" \in Part
  /\ Void # "local" /\ Void # "stored" /\ Void # "frontend" /\ Void # "AGUI-"
BY PartAssumption DEF Void

\* Four parts are a sequence of them.
LEMMA FourParts ==
  ASSUME NEW S, NEW w \in S, NEW x \in S, NEW y \in S, NEW z \in S
  PROVE  /\ <<w, x, y, z>> \in Seq(S) /\ Len(<<w, x, y, z>>) = 4
         /\ <<w, x, y, z>>[1] = w /\ <<w, x, y, z>>[2] = x /\ <<w, x, y, z>>[4] = z
OBVIOUS

\* A collision alias: its parts, one of which is void.
LEMMA AliasParts ==
  \A b \in Seq(Part) : \A k, o \in Part :
    /\ AliasOf(b, k, o) \in Seq(Part)
    /\ Len(b) \in Nat /\ Len(AliasOf(b, k, o)) = Len(b) + 4
    /\ \A i \in 1..Len(b) : AliasOf(b, k, o)[i] = b[i]
    /\ AliasOf(b, k, o)[Len(b) + 1] = Void
    /\ AliasOf(b, k, o)[Len(b) + 2] = k
    /\ AliasOf(b, k, o)[Len(b) + 4] = o
<1> TAKE b \in Seq(Part)
<1> TAKE k, o \in Part
<1> DEFINE end == <<Void, k, Void, o>>
           a == AliasOf(b, k, o)
<1>1. /\ end \in Seq(Part) /\ Len(end) = 4 /\ end[1] = Void /\ end[2] = k /\ end[4] = o
  BY FourParts, Parts
<1>2. a = b \o end
  BY DEF AliasOf
<1> HIDE DEF end, a
<1>3. \A p, q \in Seq(Part) :
        /\ p \o q \in Seq(Part) /\ Len(p \o q) = Len(p) + Len(q)
        /\ \A i \in 1..(Len(p) + Len(q)) :
             (p \o q)[i] = IF i <= Len(p) THEN p[i] ELSE q[i - Len(p)]
  BY ConcatProperties
<1>4. /\ b \o end \in Seq(Part) /\ Len(b \o end) = Len(b) + Len(end)
      /\ \A i \in 1..(Len(b) + Len(end)) :
           (b \o end)[i] = IF i <= Len(b) THEN b[i] ELSE end[i - Len(b)]
  BY <1>1, <1>3
<1>5. /\ a \in Seq(Part) /\ Len(a) = Len(b) + 4
      /\ \A i \in 1..(Len(b) + 4) : a[i] = IF i <= Len(b) THEN b[i] ELSE end[i - Len(b)]
  BY <1>1, <1>2, <1>4
<1>6. Len(b) \in Nat
  BY LenProperties
<1>7. \A i \in 1..Len(b) : a[i] = b[i]
  BY <1>5, <1>6
<1>8. \A i \in {1, 2, 4} : a[Len(b) + i] = end[i]
  BY <1>5, <1>6
<1>9. a[Len(b) + 1] = Void /\ a[Len(b) + 2] = k /\ a[Len(b) + 4] = o
  BY <1>1, <1>8
<1> QED
  BY <1>5, <1>6, <1>7, <1>9 DEF a

\* Names with a void part are not names without.
LEMMA AliasTyped ==
  \A b \in Seq(Part) : \A k, o \in Part : AliasOf(b, k, o) \in Seq(Part) /\ Gap(AliasOf(b, k, o))
<1> TAKE b \in Seq(Part)
<1> TAKE k, o \in Part
<1> DEFINE a == AliasOf(b, k, o)
<1>1. a \in Seq(Part) /\ Len(b) \in Nat /\ Len(a) = Len(b) + 4 /\ a[Len(b) + 1] = Void
  BY AliasParts
<1> HIDE DEF a
<1>2. Len(b) + 1 \in 1..Len(a)
  BY <1>1
<1>3. Gap(a)
  BY <1>1, <1>2 DEF Gap
<1> QED
  BY <1>1, <1>3 DEF a

\* Aliases of different names, kinds or owners differ.
LEMMA AliasInjective ==
  \A b, c \in Seq(Part) : \A k, l, o, p \in Part :
    AliasOf(b, k, o) = AliasOf(c, l, p) => b = c /\ k = l /\ o = p
<1> TAKE b, c \in Seq(Part)
<1> TAKE k, l, o, p \in Part
<1> DEFINE a == AliasOf(b, k, o)
           d == AliasOf(c, l, p)
<1>1. /\ Len(b) \in Nat /\ Len(a) = Len(b) + 4 /\ \A i \in 1..Len(b) : a[i] = b[i]
      /\ a[Len(b) + 2] = k /\ a[Len(b) + 4] = o
  BY AliasParts
<1>2. /\ Len(c) \in Nat /\ Len(d) = Len(c) + 4 /\ \A i \in 1..Len(c) : d[i] = c[i]
      /\ d[Len(c) + 2] = l /\ d[Len(c) + 4] = p
  BY AliasParts
<1> HIDE DEF a, d
<1> SUFFICES ASSUME a = d PROVE b = c /\ k = l /\ o = p
  BY DEF a, d
<1>3. Len(b) = Len(c)
  BY <1>1, <1>2
<1>4. \A i \in 1..Len(b) : b[i] = c[i]
  BY <1>1, <1>2, <1>3
<1>5. b = c
  BY <1>3, <1>4, SeqEqual
<1> QED
  BY <1>1, <1>2, <1>3, <1>5

\* A part put after a name without void parts, or before it.
LEMMA Extended ==
  ASSUME NEW b, Gapless(b), NEW x \in Part, x # Void
  PROVE  /\ Gapless(Append(b, x)) /\ Gapless(<<x>> \o b)
         /\ Append(b, x)[Len(Append(b, x))] = x /\ Append(b, x) # <<>>
         /\ (<<x>> \o b)[1] = x
         /\ b # <<>> => /\ Append(b, x)[1] = b[1]
                       /\ (<<x>> \o b)[Len(<<x>> \o b)] = b[Len(b)]
<1>1. b \in Seq(Part) /\ Len(b) \in Nat /\ \A i \in 1..Len(b) : b[i] # Void
  BY LenProperties DEF Gapless, Gap
<1>2. PICK a : a = Append(b, x)
  OBVIOUS
<1>3. /\ a \in Seq(Part) /\ a # <<>> /\ Len(a) = Len(b) + 1
      /\ \A i \in 1..Len(b) : a[i] = b[i]
      /\ a[Len(b) + 1] = x
  BY <1>1, <1>2, AppendProperties
<1>4. PICK one : one = <<x>>
  OBVIOUS
<1>5. one \in Seq(Part) /\ Len(one) = 1 /\ one[1] = x
  BY <1>4
<1>6. PICK d : d = one \o b
  OBVIOUS
<1>7. /\ d \in Seq(Part) /\ Len(d) = 1 + Len(b)
      /\ \A i \in 1..(1 + Len(b)) : d[i] = IF i <= 1 THEN one[i] ELSE b[i - 1]
  <2>1. \A p, q \in Seq(Part) :
          /\ p \o q \in Seq(Part) /\ Len(p \o q) = Len(p) + Len(q)
          /\ \A i \in 1..(Len(p) + Len(q)) :
               (p \o q)[i] = IF i <= Len(p) THEN p[i] ELSE q[i - Len(p)]
    BY ConcatProperties
  <2>2. /\ d \in Seq(Part) /\ Len(d) = Len(one) + Len(b)
        /\ \A i \in 1..(Len(one) + Len(b)) :
             d[i] = IF i <= Len(one) THEN one[i] ELSE b[i - Len(one)]
    BY <1>1, <1>5, <1>6, <2>1
  <2> QED
    BY <1>5, <2>2
<1>8. b # <<>> => Len(b) > 0
  BY <1>1, EmptySeq
<1>9. Gapless(a) /\ a[Len(a)] = x /\ (b # <<>> => a[1] = b[1])
  <2>1. \A i \in 1..Len(a) : a[i] # Void
    BY <1>1, <1>3
  <2>2. Gapless(a)
    BY <1>3, <2>1 DEF Gapless, Gap
  <2> QED
    BY <1>1, <1>3, <1>8, <2>2
<1>10. \A i \in 1..Len(d) : d[i] # Void
  BY <1>1, <1>5, <1>7
<1>11. Gapless(d) /\ d[1] = x /\ (b # <<>> => d[Len(d)] = b[Len(b)])
  <2>1. Gapless(d)
    BY <1>7, <1>10 DEF Gapless, Gap
  <2>2. Len(b) \in Nat /\ Len(d) = 1 + Len(b)
    BY <1>1, <1>7, LenProperties
  <2>3. d[1] = x
    BY <1>5, <1>7, <2>2
  <2>4. b # <<>> => d[Len(d)] = b[Len(b)]
    BY <1>7, <1>8, <2>2
  <2> QED
    BY <2>1, <2>3, <2>4
<1> QED
  BY <1>2, <1>3, <1>4, <1>6, <1>9, <1>11

----------------------------------------------------------------------------
(* Tools and their names.                                                  *)

\* A server's tools are listed under different names.
LEMMA LiveNames ==
  ASSUME PlainNames, configured \subseteq Server,
         NEW s \in configured, NEW b \in Serves[s], NEW r \in configured, NEW c \in Serves[r],
         LiveName(s, b) = LiveName(r, c)
  PROVE  s = r /\ b = c
<1>1. /\ b \in Seq(Part) /\ c \in Seq(Part) /\ s \in Part /\ r \in Part
  BY DEF PlainNames, Ordinary, Gapless
<1>2. CASE Cardinality(configured) > 1
  <2>1. Append(b, s) = Append(c, r)
    BY <1>2 DEF LiveName
  <2> QED
    BY <1>1, <2>1, AppendInjective
<1>3. CASE ~ (Cardinality(configured) > 1)
  <2>1. IsFiniteSet(configured)
    BY ServerAssumption, FS_Subset
  <2>2. Cardinality(configured) = 1
    BY <1>3, <2>1, FS_CardinalityType, FS_EmptySet
  <2>3. s = r
    BY <2>1, <2>2, FS_Singleton
  <2>4. CASE s = "default"
    BY <1>3, <2>3, <2>4 DEF LiveName
  <2>5. CASE s # "default"
    <3>1. Append(b, s) = Append(c, r)
      BY <2>3, <2>5 DEF LiveName
    <3> QED
      BY <1>1, <3>1, AppendInjective
  <2> QED
    BY <2>3, <2>4, <2>5
<1> QED
  BY <1>2, <1>3

\* What a listed name looks like.
LEMMA LiveNameOrdinary ==
  ASSUME PlainNames, configured \subseteq Server, NEW s \in configured, NEW b \in Serves[s]
  PROVE  Ordinary(LiveName(s, b))
<1>1. Ordinary(b) /\ Gapless(b) /\ b # <<>> /\ s \in Part /\ s # Void /\ s # Namespace
  BY ServerAssumption DEF PlainNames, Ordinary, Namespace
<1>2. /\ Gapless(Append(b, s)) /\ Append(b, s) # <<>>
      /\ Append(b, s)[Len(Append(b, s))] = s /\ Append(b, s)[1] = b[1]
  BY <1>1, Extended
<1>3. Ordinary(Append(b, s))
  BY <1>1, <1>2 DEF Ordinary
<1> QED
  BY <1>1, <1>3 DEF LiveName

Sorted(R, t) ==
  \/ /\ t.kind = "mcp" /\ t.owner \in configured /\ t.base \in Serves[t.owner]
     /\ t.given = LiveName(t.owner, t.base) /\ Ordinary(t.base) /\ Ordinary(t.given)
  \/ /\ t.kind = "agui" /\ t.owner = "frontend" /\ t.base \in Frontend /\ Ordinary(t.base)
     /\ t.given = <<"AGUI-">> \o t.base /\ t.given[1] = "AGUI-"
     /\ t.given[Len(t.given)] # Namespace /\ t \in R
  \/ /\ t.kind = "local" /\ t.owner = Namespace /\ t.base \in Local
     /\ t.given = Append(t.base, Namespace) /\ t.given[Len(t.given)] = Namespace

\* The three sorts of tools.
LEMMA RealTool ==
  ASSUME PlainNames, configured \subseteq Server, NEW R, R \subseteq Record, NEW t \in Real(R)
  PROVE  /\ t = Tool(t.kind, t.owner, t.base, t.given)
         /\ Gapless(t.base) /\ Gapless(t.given)
         /\ t.kind \in Part /\ t.owner \in Part /\ t.owner # "stored"
         /\ Sorted(R, t)
<1>1. CASE t \in FetchedTools(configured)
  <2>1. PICK s \in configured : \E b \in Serves[s] : t = Tool("mcp", s, b, LiveName(s, b))
    BY <1>1 DEF FetchedTools, Lists
  <2>6. PICK b \in Serves[s] : t = Tool("mcp", s, b, LiveName(s, b))
    BY <2>1
  <2>2. t.kind = "mcp" /\ t.owner = s /\ t.base = b /\ t.given = LiveName(s, b)
    BY <2>6 DEF Tool
  <2>3. Ordinary(b) /\ s \in Part /\ s # "stored"
    BY DEF PlainNames
  <2>4. Ordinary(LiveName(s, b))
    BY LiveNameOrdinary
  <2>5. Gapless(b) /\ Gapless(LiveName(s, b))
    BY <2>3, <2>4 DEF Ordinary
  <2> QED
    BY <2>6, <2>2, <2>3, <2>4, <2>5, Parts DEF Sorted
<1>2. CASE t \in R
  <2>1. PICK b \in Frontend : t = FrontendTool(b)
    BY <1>2 DEF Record
  <2>2. t.kind = "agui" /\ t.owner = "frontend" /\ t.base = b /\ t.given = <<"AGUI-">> \o b
    BY <2>1 DEF FrontendTool, Tool
  <2>3. Ordinary(b) /\ Gapless(b) /\ b # <<>> /\ b[Len(b)] # Namespace
    BY DEF PlainNames, Ordinary
  <2>4. /\ Gapless(t.given) /\ t.given[1] = "AGUI-" /\ t.given[Len(t.given)] = b[Len(b)]
    BY <2>2, <2>3, Parts, Extended
  <2>5. t = Tool("agui", "frontend", t.base, t.given)
    BY <2>1, <2>2 DEF FrontendTool
  <2> QED
    BY <1>2, <2>2, <2>3, <2>4, <2>5, Parts DEF Sorted
<1>3. CASE t \in BuiltIns
  <2>1. PICK b \in Local : t = LocalTool(b)
    BY <1>3 DEF BuiltIns
  <2>2. t.kind = "local" /\ t.owner = Namespace /\ t.base = b /\ t.given = Append(b, Namespace)
    BY <2>1 DEF LocalTool, Tool
  <2>3. Gapless(b)
    BY DEF PlainNames
  <2>4. Namespace \in Part /\ Namespace # Void /\ Namespace # "stored"
    BY Parts DEF Namespace
  <2>7. Gapless(Append(b, Namespace)) /\ Append(b, Namespace)[Len(Append(b, Namespace))] = Namespace
    BY <2>3, <2>4, Extended
  <2>5. Gapless(t.given) /\ t.given[Len(t.given)] = Namespace
    BY <2>2, <2>7
  <2>6. t = Tool("local", Namespace, t.base, t.given)
    BY <2>1, <2>2 DEF LocalTool
  <2> QED
    BY <2>2, <2>3, <2>4, <2>5, <2>6, Parts DEF Sorted
<1> QED
  BY <1>1, <1>2, <1>3 DEF Real

\* A name a tool owns is its alias, or gapless and of the tool's sort.
LEMMA OwnedName ==
  ASSUME PlainNames, configured \subseteq Server, NEW R, R \subseteq Record, NEW t \in Real(R),
         NEW n, Owns(R, t, n)
  PROVE  \/ n = Alias(t) /\ Gap(n) /\ n \in Seq(Part)
         \/ /\ Gapless(n)
            /\ \/ t.kind = "local" /\ n = t.given /\ n[Len(n)] = Namespace
               \/ t.kind = "mcp" /\ n = t.given /\ n[Len(n)] # Namespace /\ ~ IsFrontend(n, R)
               \/ /\ t.kind = "agui" /\ n \in {t.base, t.given} /\ n[Len(n)] # Namespace
                  /\ IsFrontend(n, R)
<1>1. /\ t.base \in Seq(Part) /\ t.kind \in Part /\ t.owner \in Part
      /\ Gapless(t.base) /\ Gapless(t.given) /\ Sorted(R, t)
  BY RealTool DEF Gapless
<1>2. CASE n = Alias(t)
  <2>1. n = AliasOf(t.base, t.kind, t.owner)
    BY <1>2 DEF Alias, AliasOf
  <2> QED
    BY <1>1, <1>2, <2>1, AliasTyped
<1>3. CASE t.kind = "mcp" /\ n = t.given /\ ~ IsFrontend(n, R)
  BY <1>1, <1>3 DEF Sorted, Ordinary
<1>4. CASE t.kind = "agui" /\ n \in {t.base, t.given}
  BY <1>1, <1>4 DEF Sorted, Ordinary, IsFrontend
<1>5. CASE t.kind = "local" /\ n = t.given
  BY <1>1, <1>5 DEF Sorted
<1> QED
  BY <1>2, <1>3, <1>4, <1>5 DEF Owns

\* A name has one owner.
LEMMA OneOwner ==
  ASSUME PlainNames, configured \subseteq Server, NEW R, R \subseteq Record,
         NEW t \in Real(R), NEW u \in Real(R), NEW n, Owns(R, t, n), Owns(R, u, n)
  PROVE  t = u
<1>1. /\ t = Tool(t.kind, t.owner, t.base, t.given) /\ Sorted(R, t)
      /\ t.base \in Seq(Part) /\ t.kind \in Part /\ t.owner \in Part
  BY RealTool DEF Gapless
<1>2. /\ u = Tool(u.kind, u.owner, u.base, u.given) /\ Sorted(R, u)
      /\ u.base \in Seq(Part) /\ u.kind \in Part /\ u.owner \in Part
  BY RealTool DEF Gapless
<1>3. \/ n = Alias(t) /\ n = Alias(u)
      \/ /\ t.kind = u.kind
         /\ t.kind \in {"local", "mcp"} => n = t.given /\ n = u.given
         /\ t.kind = "agui" => n \in {t.base, t.given} /\ n \in {u.base, u.given}
  <2>1. (Gap(n) /\ n = Alias(t)) \/ (~ Gap(n) /\ Gapless(n))
    BY OwnedName DEF Gapless
  <2>2. (Gap(n) /\ n = Alias(u)) \/ (~ Gap(n) /\ Gapless(n))
    BY OwnedName DEF Gapless
  <2>3. CASE Gap(n)
    BY <2>1, <2>2, <2>3
  <2>4. CASE ~ Gap(n)
    <3>1. \/ t.kind = "local" /\ n = t.given /\ n[Len(n)] = Namespace
          \/ t.kind = "mcp" /\ n = t.given /\ n[Len(n)] # Namespace /\ ~ IsFrontend(n, R)
          \/ /\ t.kind = "agui" /\ n \in {t.base, t.given} /\ n[Len(n)] # Namespace
             /\ IsFrontend(n, R)
      BY <2>4, OwnedName
    <3>2. \/ u.kind = "local" /\ n = u.given /\ n[Len(n)] = Namespace
          \/ u.kind = "mcp" /\ n = u.given /\ n[Len(n)] # Namespace /\ ~ IsFrontend(n, R)
          \/ /\ u.kind = "agui" /\ n \in {u.base, u.given} /\ n[Len(n)] # Namespace
             /\ IsFrontend(n, R)
      BY <2>4, OwnedName
    <3> QED
      BY <3>1, <3>2
  <2> QED
    BY <2>3, <2>4
<1>4. CASE n = Alias(t) /\ n = Alias(u)
  <2>1. AliasOf(t.base, t.kind, t.owner) = AliasOf(u.base, u.kind, u.owner)
    BY <1>4 DEF Alias, AliasOf
  <2>2. t.base = u.base /\ t.kind = u.kind /\ t.owner = u.owner
    BY <1>1, <1>2, <2>1, AliasInjective
  <2>3. t.given = u.given
    <3>1. CASE t.kind = "mcp"
      BY <1>1, <1>2, <2>2, <3>1 DEF Sorted
    <3>2. CASE t.kind = "agui"
      <4>1. t.given = <<"AGUI-">> \o t.base /\ u.given = <<"AGUI-">> \o u.base
        BY <1>1, <1>2, <2>2, <3>2 DEF Sorted
      <4> QED
        BY <2>2, <4>1
    <3>3. CASE t.kind = "local"
      <4>1. t.given = Append(t.base, Namespace) /\ u.given = Append(u.base, Namespace)
        BY <1>1, <1>2, <2>2, <3>3 DEF Sorted
      <4> QED
        BY <2>2, <4>1
    <3> QED
      BY <1>1, <3>1, <3>2, <3>3 DEF Sorted
  <2> QED
    BY <1>1, <1>2, <2>2, <2>3
<1>5. CASE t.kind = "mcp" /\ u.kind = "mcp" /\ t.given = u.given
  <2>1. /\ t.owner \in configured /\ t.base \in Serves[t.owner] /\ t.given = LiveName(t.owner, t.base)
        /\ u.owner \in configured /\ u.base \in Serves[u.owner] /\ u.given = LiveName(u.owner, u.base)
    BY <1>1, <1>2, <1>5 DEF Sorted
  <2>2. LiveName(t.owner, t.base) = LiveName(u.owner, u.base)
    BY <1>5, <2>1
  <2>3. t.owner = u.owner /\ t.base = u.base
    BY <2>1, <2>2, LiveNames
  <2> QED
    BY <1>1, <1>2, <1>5, <2>3
<1>6. CASE t.kind = "agui" /\ u.kind = "agui" /\ n \in {t.base, t.given} /\ n \in {u.base, u.given}
  <2>1. /\ t.owner = "frontend" /\ t.base[1] # "AGUI-" /\ t.given[1] = "AGUI-"
        /\ t.given = <<"AGUI-">> \o t.base
    BY <1>1, <1>6 DEF Sorted, Ordinary
  <2>2. /\ u.owner = "frontend" /\ u.base[1] # "AGUI-" /\ u.given[1] = "AGUI-"
        /\ u.given = <<"AGUI-">> \o u.base
    BY <1>2, <1>6 DEF Sorted, Ordinary
  <2>3. t.base = u.base \/ t.given = u.given
    BY <1>6, <2>1, <2>2
  <2>4. t.given = u.given => t.base = u.base
    <3>1. PICK one : one = <<"AGUI-">>
      OBVIOUS
    <3>2. one \in Seq(Part)
      BY <3>1, Parts
    <3>3. t.given = one \o t.base /\ u.given = one \o u.base
      BY <2>1, <2>2, <3>1
    <3> QED
      BY <1>1, <1>2, <3>2, <3>3, ConcatSimplifications
  <2> QED
    BY <1>1, <1>2, <1>6, <2>1, <2>2, <2>3, <2>4
<1>7. CASE t.kind = "local" /\ u.kind = "local" /\ t.given = u.given
  <2>1. /\ t.owner = Namespace /\ u.owner = Namespace
        /\ Append(t.base, Namespace) = Append(u.base, Namespace)
    BY <1>1, <1>2, <1>7 DEF Sorted
  <2>2. Namespace \in Part
    BY Parts DEF Namespace
  <2>3. t.base = u.base
    <3>1. PICK b, c : b = t.base /\ c = u.base
      OBVIOUS
    <3>2. b \in Seq(Part) /\ c \in Seq(Part) /\ Append(b, Namespace) = Append(c, Namespace)
      BY <1>1, <1>2, <2>1, <3>1
    <3>3. b = c
      BY <2>2, <3>2, AppendInjective
    <3> QED
      BY <3>1, <3>3
  <2> QED
    BY <1>1, <1>2, <1>7, <2>1, <2>3
<1>8. t.kind \in {"mcp", "agui", "local"}
  BY <1>1 DEF Sorted
<1> QED
  BY <1>3, <1>4, <1>5, <1>6, <1>7, <1>8

\* The alias of a stored name is nobody's own.
LEMMA OwnedNotDerived ==
  ASSUME PlainNames, configured \subseteq Server, NEW R, R \subseteq Record,
         NEW t \in Real(R), NEW n, Owns(R, t, n), NEW m \in Seq(Part)
  PROVE  n # StoredAlias(m)
<1> SUFFICES ASSUME n = StoredAlias(m) PROVE FALSE
  OBVIOUS
<1>1. Gap(n)
  BY AliasTyped, Parts DEF StoredAlias
<1>2. n = Alias(t)
  BY <1>1, OwnedName DEF Gapless
<1>3. /\ t.base \in Seq(Part) /\ t.kind \in Part /\ t.owner \in Part /\ t.owner # "stored"
  BY RealTool DEF Gapless
<1>4. AliasOf(t.base, t.kind, t.owner) = AliasOf(m, "mcp", "stored")
  BY <1>2 DEF Alias, StoredAlias, AliasOf
<1> QED
  BY <1>3, <1>4, Parts, AliasInjective

\* Different stored names have different aliases.
LEMMA StoredAliasInjective ==
  ASSUME NEW m \in Seq(Part), NEW o \in Seq(Part), StoredAlias(m) = StoredAlias(o)
  PROVE  m = o
BY Parts, AliasInjective DEF StoredAlias

\* A listed name is one server's tool.
LEMMA OneServer ==
  ASSUME PlainNames, configured \subseteq Server, NEW R, R \subseteq Record,
         NEW t \in Real(R), NEW u \in Real(R), t.kind = "mcp", u.kind = "mcp", t.given = u.given
  PROVE  t = u
<1>1. t = Tool(t.kind, t.owner, t.base, t.given) /\ Sorted(R, t)
  BY RealTool
<1>2. u = Tool(u.kind, u.owner, u.base, u.given) /\ Sorted(R, u)
  BY RealTool
<1>3. /\ t.owner \in configured /\ t.base \in Serves[t.owner] /\ t.given = LiveName(t.owner, t.base)
      /\ u.owner \in configured /\ u.base \in Serves[u.owner] /\ u.given = LiveName(u.owner, u.base)
  BY <1>1, <1>2 DEF Sorted
<1>4. LiveName(t.owner, t.base) = LiveName(u.owner, u.base)
  BY <1>3
<1>5. t.owner = u.owner /\ t.base = u.base
  BY <1>3, <1>4, LiveNames
<1> QED
  BY <1>1, <1>2, <1>5

----------------------------------------------------------------------------
(* The registry.                                                           *)

Kinded(tools) == \A t \in tools : t.kind \in {"mcp", "agui", "local"}

\* The order of registration.
LEMMA Ranks ==
  ASSUME NEW t
  PROVE  /\ t.kind = "mcp" => Rank(t) = 1
         /\ t.kind = "agui" => Rank(t) = 2
         /\ t.kind = "local" => Rank(t) = 3
BY DEF Rank

\* Of some tools one was registered first and one last.
LEMMA Registered ==
  ASSUME NEW tools, Kinded(tools), tools # {}
  PROVE  /\ First(tools) \in tools /\ \A u \in tools : Rank(First(tools)) <= Rank(u)
         /\ Latest(tools) \in tools /\ \A u \in tools : Rank(u) <= Rank(Latest(tools))
<1>1. \A t \in tools : Rank(t) \in {1, 2, 3}
  BY Ranks DEF Kinded
<1>2. \E t \in tools : \A u \in tools : Rank(t) <= Rank(u)
  <2>1. CASE \E t \in tools : Rank(t) = 1
    BY <1>1, <2>1
  <2>2. CASE (\A t \in tools : Rank(t) # 1) /\ \E t \in tools : Rank(t) = 2
    BY <1>1, <2>2
  <2>3. CASE \A t \in tools : Rank(t) # 1 /\ Rank(t) # 2
    BY <1>1, <2>3
  <2> QED
    BY <2>1, <2>2, <2>3
<1>3. \E t \in tools : \A u \in tools : Rank(t) >= Rank(u)
  <2>1. CASE \E t \in tools : Rank(t) = 3
    BY <1>1, <2>1
  <2>2. CASE (\A t \in tools : Rank(t) # 3) /\ \E t \in tools : Rank(t) = 2
    BY <1>1, <2>2
  <2>3. CASE \A t \in tools : Rank(t) # 3 /\ Rank(t) # 2
    BY <1>1, <2>3
  <2> QED
    BY <2>1, <2>2, <2>3
<1>4. First(tools) \in tools /\ \A u \in tools : Rank(First(tools)) <= Rank(u)
  BY <1>2 DEF First
<1>5. Latest(tools) \in tools /\ \A u \in tools : Rank(Latest(tools)) >= Rank(u)
  BY <1>3 DEF Latest
<1> QED
  BY <1>1, <1>4, <1>5

\* A name is offered for the tool of that canonical name registered last.
LEMMA Offered ==
  ASSUME NEW tools, Kinded(tools)
  PROVE  /\ \A t \in tools : Canonical(tools, t) \in DOMAIN Offers(tools)
         /\ \A n \in DOMAIN Offers(tools) :
              /\ Offers(tools)[n] \in tools
              /\ Canonical(tools, Offers(tools)[n]) = n
              /\ \A u \in tools : Canonical(tools, u) = n => Rank(u) <= Rank(Offers(tools)[n])
<1>1. \A t \in tools : Canonical(tools, t) \in DOMAIN Offers(tools)
  BY DEF Offers
<1>2. ASSUME NEW n \in DOMAIN Offers(tools)
      PROVE  /\ Offers(tools)[n] \in tools
             /\ Canonical(tools, Offers(tools)[n]) = n
             /\ \A u \in tools : Canonical(tools, u) = n => Rank(u) <= Rank(Offers(tools)[n])
  <2> DEFINE named == {t \in tools : Canonical(tools, t) = n}
  <2>1. Offers(tools)[n] = Latest(named) /\ \E t \in tools : n = Canonical(tools, t)
    BY <1>2 DEF Offers
  <2>2. named # {} /\ Kinded(named)
    BY <2>1 DEF Kinded
  <2>3. Latest(named) \in named /\ \A u \in named : Rank(u) <= Rank(Latest(named))
    <3> HIDE DEF named
    <3> QED
      BY <2>2, Registered
  <2> QED
    BY <2>1, <2>3
<1> QED
  BY <1>1, <1>2

\* What a name resolves to: the tool offered under it, or what is offered under
\* the canonical name of a tool of which it is an alias.
LEMMA Resolving ==
  ASSUME NEW tools, Kinded(tools), NEW n
  PROVE  LET offers == Offers(tools)
             found == Resolved(tools, offers, n)
         IN  \/ found = {} /\ n \notin DOMAIN offers /\ \A t \in tools : n \notin Aliases(tools, t)
             \/ n \in DOMAIN offers /\ found = {offers[n]}
             \/ /\ n \notin DOMAIN offers
                /\ \E f \in tools : n \in Aliases(tools, f) /\ found = {offers[Canonical(tools, f)]}
<1> DEFINE offers == Offers(tools)
           byAlias == {t \in tools : n \in Aliases(tools, t)}
           found == Resolved(tools, offers, n)
<1>1. CASE n \in DOMAIN offers
  BY <1>1 DEF Resolved
<1>2. CASE n \notin DOMAIN offers /\ byAlias = {}
  <2>1. found = {}
    BY <1>2 DEF Resolved
  <2> QED
    BY <1>2, <2>1
<1>3. CASE n \notin DOMAIN offers /\ byAlias # {}
  <2>1. found = {offers[Canonical(tools, First(byAlias))]}
    BY <1>3 DEF Resolved
  <2>2. Kinded(byAlias)
    BY DEF Kinded
  <2>3. First(byAlias) \in byAlias
    <3> HIDE DEF byAlias
    <3> QED
      BY <1>3, <2>2, Registered
  <2> QED
    BY <1>3, <2>1, <2>3
<1> QED
  BY <1>1, <1>2, <1>3

\* An offered tool owns the name it is offered under; a built-in or a client tool
\* owns its aliases, too.
LEMMA CanonicalOwned ==
  ASSUME PlainNames, configured \subseteq Server, NEW R, R \subseteq Record,
         NEW tools, R \subseteq tools, NEW t \in tools, t \in Real(R),
         t.kind = "mcp" =>
           /\ \A u \in tools :
                Canonical(tools, u) = Canonical(tools, t) => Rank(u) <= Rank(t)
           /\ \A u \in tools : u \in Real(R) \/ ~ IsFrontend(u.base, R)
  PROVE  /\ Owns(R, t, Canonical(tools, t))
         /\ t.kind # "mcp" => \A n \in Aliases(tools, t) : Owns(R, t, n)
<1>1. Sorted(R, t)
  BY RealTool
<1>2. CASE Collides(tools, t)
  BY <1>1, <1>2 DEF Canonical, Owns, Aliases, Sorted
<1>3. CASE ~ Collides(tools, t) /\ t.kind # "mcp"
  BY <1>1, <1>3 DEF Canonical, Plain, Owns, Aliases, Sorted
<1>4. CASE ~ Collides(tools, t) /\ t.kind = "mcp"
  <2>1. Canonical(tools, t) = t.given
    BY <1>4 DEF Canonical, Plain
  <2>2. ~ IsFrontend(t.given, R)
    <3> SUFFICES ASSUME NEW u \in R, t.given \in {u.base, u.given} PROVE FALSE
      BY DEF IsFrontend
    <3>1. u \in Real(R) /\ u.kind = "agui" /\ u \in tools
      BY DEF Real, Record, FrontendTool, Tool
    <3>2. /\ u = Tool("agui", "frontend", u.base, u.given) /\ u.base \in Frontend
          /\ u.given = <<"AGUI-">> \o u.base /\ u.given[1] = "AGUI-"
      BY <3>1, RealTool DEF Sorted
    <3>3. /\ t.owner \in configured /\ t.base \in Serves[t.owner]
          /\ t.given = LiveName(t.owner, t.base) /\ t.given[1] # "AGUI-"
      BY <1>1, <1>4 DEF Sorted, Ordinary
    <3>4. t.given = u.base
      BY <3>2, <3>3
    <3>5. CASE Collides(tools, u)
      <4>1. PICK v \in tools : v # u /\ v.base = u.base
        BY <3>5 DEF Collides
      <4>2. v \in Real(R)
        <5>1. IsFrontend(v.base, R)
          BY <4>1 DEF IsFrontend
        <5> QED
          BY <1>4, <5>1
      <4>3. v = Tool(v.kind, v.owner, v.base, v.given) /\ Sorted(R, v)
        BY <4>2, RealTool
      <4>4. v.kind # "agui"
        BY <3>2, <4>1, <4>3 DEF Sorted
      <4>5. u.base \in Local \cup UNION {Serves[r] : r \in Server}
        BY <4>1, <4>3, <4>4 DEF Sorted
      <4>6. t.given = t.base
        BY <3>2, <3>3, <3>4, <4>5 DEF LiveName, PlainNames
      <4> QED
        BY <1>4, <3>1, <3>4, <4>6 DEF Collides
    <3>6. CASE ~ Collides(tools, u)
      <4>1. Canonical(tools, u) = Canonical(tools, t)
        BY <2>1, <3>1, <3>4, <3>6 DEF Canonical, Plain
      <4>2. Rank(u) <= Rank(t)
        BY <1>4, <3>1, <4>1
      <4>3. Rank(u) = 2 /\ Rank(t) = 1
        BY <1>4, <3>1, Ranks
      <4> QED
        BY <4>2, <4>3
    <3> QED
      BY <3>5, <3>6
  <2> QED
    BY <1>4, <2>1, <2>2 DEF Owns
<1> QED
  BY <1>2, <1>3, <1>4

----------------------------------------------------------------------------
(* What names mean.                                                        *)

\* A name a tool owns means that tool, if anything.
LEMMA MeansOwner ==
  ASSUME PlainNames, configured \subseteq Server, NEW R, R \subseteq Record, Meanings(R),
         NEW t \in Real(R), NEW n \in DOMAIN meaning, Owns(R, t, n)
  PROVE  meaning[n] = t
<1>1. ~ Derived(n)
  BY OwnedNotDerived DEF Derived, Meanings
<1>2. meaning[n] \in Real(R) /\ Owns(R, meaning[n], n)
  BY <1>1 DEF Meanings
<1> QED
  BY <1>2, OneOwner

\* The alias of a stored name means what that name means.
LEMMA MeansStored ==
  ASSUME PlainNames, configured \subseteq Server, NEW R, R \subseteq Record, Meanings(R),
         NEW m \in Seq(Part), StoredAlias(m) \in DOMAIN meaning
  PROVE  m \in DOMAIN meaning /\ meaning[StoredAlias(m)] = meaning[m]
<1> DEFINE n == StoredAlias(m)
<1>1. meaning[n] \in Real(R) /\ (Derived(n) \/ Owns(R, meaning[n], n))
  BY DEF Meanings
<1>2. ~ Owns(R, meaning[n], n)
  BY <1>1, OwnedNotDerived
<1>3. PICK o \in DOMAIN meaning : n = StoredAlias(o) /\ meaning[n] = meaning[o]
  BY <1>1, <1>2 DEF Derived
<1>4. o \in Seq(Part)
  BY DEF Meanings
<1>5. m = o
  BY <1>3, <1>4, StoredAliasInjective
<1> QED
  BY <1>3, <1>5

\* The tools of a segment: real ones, and stored names.
LEMMA SegmentTools ==
  ASSUME PlainNames, Sound, run.status = "running", NEW R, R = run.records,
         NEW tools, tools = run.tools
  PROVE  /\ configured \subseteq Server /\ R \subseteq Record /\ R \subseteq tools /\ Meanings(R)
         /\ Kinded(tools)
         /\ \A t \in tools :
              \/ t \in Real(R) /\ t.owner # "stored"
              \/ /\ t.kind = "mcp" /\ t.owner = "stored" /\ t = Stored(t.given)
                 /\ t.given \in Seq(Part) /\ Storable(R, t.given)
<1>1. /\ configured \subseteq Server /\ R \subseteq Record /\ R \subseteq tools /\ Meanings(R)
      /\ FirstTools(R) \/ RebuiltTools(R)
  BY DEF Sound, Segmented
<1>2. \A t \in Real(R) : t.owner # "stored" /\ t.kind \in {"mcp", "agui", "local"}
  BY <1>1, RealTool DEF Sorted
<1>3. ASSUME NEW t \in tools
      PROVE  \/ t \in Real(R) /\ t.owner # "stored"
             \/ /\ t.kind = "mcp" /\ t.owner = "stored" /\ t = Stored(t.given)
                /\ t.given \in Seq(Part) /\ Storable(R, t.given)
  <2>1. CASE t \in Real(R)
    BY <1>2, <2>1
  <2>2. CASE t \notin Real(R)
    <3>1. PICK m \in DOMAIN meaning : Storable(R, m) /\ t = Stored(m)
      BY <1>1, <2>2 DEF FirstTools, RebuiltTools, Real
    <3>2. t.kind = "mcp" /\ t.owner = "stored" /\ t.given = m
      BY <3>1 DEF Stored, Tool
    <3>3. m \in Seq(Part)
      BY <1>1 DEF Meanings
    <3> QED
      BY <3>1, <3>2, <3>3
  <2> QED
    BY <2>1, <2>2
<1> QED
  BY <1>1, <1>2, <1>3 DEF Kinded

\* The names of a stored tool: the stored one, or its alias.
LEMMA StoredNames ==
  ASSUME NEW tools, NEW m, NEW n
  PROVE  /\ Canonical(tools, Stored(m)) \in {m, StoredAlias(m)}
         /\ n \in Aliases(tools, Stored(m)) => n = m /\ Canonical(tools, Stored(m)) = StoredAlias(m)
<1>1. /\ Stored(m).kind = "mcp" /\ Stored(m).owner = "stored"
      /\ Stored(m).base = m /\ Stored(m).given = m
  BY DEF Stored, Tool
<1>2. Alias(Stored(m)) = StoredAlias(m) /\ Plain(Stored(m)) = m
  BY <1>1 DEF Alias, StoredAlias, AliasOf, Plain
<1>3. Aliases(tools, Stored(m)) = {m} \ {Canonical(tools, Stored(m))}
  BY <1>1 DEF Aliases
<1> QED
  BY <1>2, <1>3 DEF Canonical

\* What a known name resolves to is the tool it means, or a stored name that
\* means the same tool.
LEMMA ResolvedMeans ==
  ASSUME PlainNames, Sound, run.status = "running", NEW n \in DOMAIN meaning,
         NEW R, R = run.records, NEW tools, tools = run.tools, NEW offers, offers = run.offers
  PROVE  LET found == Resolved(tools, offers, n)
         IN  \/ /\ found = {} /\ n \notin DOMAIN offers
                /\ \A t \in tools : n \notin Aliases(tools, t)
             \/ \E x \in tools :
                  /\ found = {x}
                  /\ n \in DOMAIN offers => x = offers[n]
                  /\ x.owner # "stored" => x = meaning[n]
                  /\ x.owner = "stored" => meaning[n] = meaning[x.given]
<1> DEFINE found == Resolved(tools, offers, n)
<1>1. /\ configured \subseteq Server /\ R \subseteq Record /\ R \subseteq tools /\ Meanings(R)
      /\ Kinded(tools)
      /\ \A t \in tools :
           \/ t \in Real(R) /\ t.owner # "stored"
           \/ /\ t.kind = "mcp" /\ t.owner = "stored" /\ t = Stored(t.given)
              /\ t.given \in Seq(Part) /\ Storable(R, t.given)
  BY SegmentTools
<1>2. /\ offers = Offers(tools)
      /\ FirstTools(R) \/ RebuiltTools(R)
      /\ \A k \in DOMAIN offers :
           meaning[k] = IF offers[k].owner = "stored" THEN meaning[offers[k].given] ELSE offers[k]
  BY DEF Sound, Segmented, Meant
<1>3. /\ \A t \in tools : Canonical(tools, t) \in DOMAIN offers
      /\ \A k \in DOMAIN offers :
           /\ offers[k] \in tools
           /\ Canonical(tools, offers[k]) = k
           /\ \A u \in tools : Canonical(tools, u) = k => Rank(u) <= Rank(offers[k])
  BY <1>1, <1>2, Offered
<1>4. \/ found = {} /\ n \notin DOMAIN offers /\ \A t \in tools : n \notin Aliases(tools, t)
      \/ n \in DOMAIN offers /\ found = {offers[n]}
      \/ /\ n \notin DOMAIN offers
         /\ \E f \in tools : n \in Aliases(tools, f) /\ found = {offers[Canonical(tools, f)]}
  BY <1>1, <1>2, Resolving
<1>5. CASE n \in DOMAIN offers /\ found = {offers[n]}
  <2>1. offers[n] \in tools
    BY <1>3, <1>5
  <2> QED
    BY <1>2, <1>5, <2>1
<1>6. ASSUME n \notin DOMAIN offers, NEW f \in tools, n \in Aliases(tools, f),
             found = {offers[Canonical(tools, f)]}
      PROVE  LET x == offers[Canonical(tools, f)]
             IN  /\ x \in tools
                 /\ x.owner # "stored" => x = meaning[n]
                 /\ x.owner = "stored" => meaning[n] = meaning[x.given]
  <2> DEFINE c == Canonical(tools, f)
  <2>1. PICK x : x = offers[c]
    OBVIOUS
  <2>2. c \in DOMAIN offers /\ x \in tools /\ Canonical(tools, x) = c /\ Rank(f) <= Rank(x)
    BY <1>3, <2>1
  <2>3. RebuiltTools(R)
    BY <1>2, <1>6 DEF FirstTools
  <2>4. CASE f \in Real(R) /\ f.kind # "mcp"
    <3>1. Owns(R, f, c) /\ Owns(R, f, n)
      BY <1>1, <1>6, <2>4, CanonicalOwned
    <3>2. Rank(f) \in {2, 3}
      BY <1>1, <2>4, Ranks DEF Kinded
    <3>3. x.kind # "mcp"
      BY <2>2, <3>2, Ranks
    <3>4. x \in Real(R) /\ x.owner # "stored"
      BY <1>1, <2>2, <3>3
    <3>5. Owns(R, x, c)
      BY <1>1, <2>2, <3>3, <3>4, CanonicalOwned
    <3>6. x = f
      BY <1>1, <2>4, <3>1, <3>4, <3>5, OneOwner
    <3>7. meaning[n] = f
      BY <1>1, <2>4, <3>1, MeansOwner
    <3> QED
      BY <2>1, <2>2, <3>4, <3>6, <3>7
  <2>5. CASE f.owner = "stored"
    <3>1. f = Stored(f.given) /\ f.given \in Seq(Part)
      BY <1>1, <1>6, <2>5
    <3>2. PICK m \in Seq(Part) : f = Stored(m)
      BY <3>1
    <3>3. n = m /\ c = StoredAlias(m)
      BY <1>6, <3>2, StoredNames
    <3>4. c \in DOMAIN meaning
      BY <2>2 DEF Sound, Segmented
    <3>5. meaning[c] = meaning[n]
      BY <1>1, <3>3, <3>4, MeansStored
    <3>6. meaning[c] = IF x.owner = "stored" THEN meaning[x.given] ELSE x
      BY <1>2, <2>1, <2>2
    <3> QED
      BY <2>1, <2>2, <3>5, <3>6
  <2>6. f \in Real(R) /\ f.kind = "mcp" => f.owner = "stored"
    <3>1. \A t \in R \cup BuiltIns : t.kind # "mcp"
      BY <1>1 DEF Record, FrontendTool, BuiltIns, LocalTool, Tool
    <3>2. \A m : Stored(m).owner = "stored"
      BY DEF Stored, Tool
    <3> QED
      BY <1>6, <2>3, <3>1, <3>2 DEF RebuiltTools
  <2> QED
    BY <1>1, <1>6, <2>4, <2>5, <2>6
<1> QED
  BY <1>4, <1>5, <1>6

\* Whatever a call reaches is the tool that its name means.
LEMMA Reaching ==
  ASSUME PlainNames, Sound, run.status = "running", NEW n \in DOMAIN meaning, NEW t \in Reaches(n)
  PROVE  t = meaning[n]
<1>1. PICK R, tools, offers : R = run.records /\ tools = run.tools /\ offers = run.offers
  OBVIOUS
<1> DEFINE found == Resolved(tools, offers, n)
           active == ActiveFrontend(tools, offers, n)
           known == \E x \in found : x.kind \in {"local", "agui"}
<1>2. /\ configured \subseteq Server /\ R \subseteq Record /\ R \subseteq tools /\ Meanings(R)
      /\ Kinded(tools)
      /\ \A x \in tools :
           \/ x \in Real(R) /\ x.owner # "stored"
           \/ /\ x.kind = "mcp" /\ x.owner = "stored" /\ x = Stored(x.given)
              /\ x.given \in Seq(Part) /\ Storable(R, x.given)
  BY <1>1, SegmentTools
<1>3. \/ found = {} /\ n \notin DOMAIN offers /\ \A x \in tools : n \notin Aliases(tools, x)
      \/ \E x \in tools :
           /\ found = {x}
           /\ n \in DOMAIN offers => x = offers[n]
           /\ x.owner # "stored" => x = meaning[n]
           /\ x.owner = "stored" => meaning[n] = meaning[x.given]
  BY <1>1, ResolvedMeans
<1>4. /\ \A x \in tools : Canonical(tools, x) \in DOMAIN offers
      /\ \A k \in DOMAIN offers : offers[k] \in tools
  <2>1. offers = Offers(tools)
    BY <1>1 DEF Sound, Segmented
  <2> QED
    BY <1>2, <2>1, Offered
<1>5. /\ run.pod \in Pod
      /\ \A x \in FetchedTools(live[run.pod]) : x \in Real(R) /\ x.kind = "mcp"
  <2>1. run.pod \in Pod /\ live[run.pod] \subseteq configured
    BY DEF Sound, Segmented
  <2> QED
    BY <2>1 DEF FetchedTools, Real, Lists, Tool
<1>6. ASSUME NEW k, NEW mode, NEW output, NEW u \in RunLocal(k, mode, output)
      PROVE  u \in Real(R) /\ Owns(R, u, k) /\ u.kind = "local" /\ u.given = k
  BY <1>6 DEF RunLocal, Real, BuiltIns, Owns, LocalTool, Tool
<1>7. CASE known /\ t \in UNION {IF x.kind = "local" THEN RunLocal(x.given, run.mode, run.output)
                                ELSE {x} : x \in found}
  <2>1. PICK x \in tools : found = {x} /\ (x.owner # "stored" => x = meaning[n])
    BY <1>3, <1>7
  <2>2. x.kind \in {"local", "agui"} /\ x \in Real(R) /\ x.owner # "stored"
    BY <1>2, <1>7, <2>1
  <2>3. CASE x.kind = "agui"
    BY <1>7, <2>1, <2>2, <2>3
  <2>4. CASE x.kind = "local"
    <3>1. t \in RunLocal(x.given, run.mode, run.output)
      BY <1>7, <2>1, <2>4
    <3>2. t \in Real(R) /\ Owns(R, t, x.given)
      BY <1>6, <3>1
    <3>3. Owns(R, x, x.given)
      BY <2>4 DEF Owns
    <3>4. t = x
      BY <1>2, <2>2, <3>2, <3>3, OneOwner
    <3> QED
      BY <2>1, <2>2, <3>4
  <2> QED
    BY <2>2, <2>3, <2>4
<1>8. CASE t \in RunLocal(n, run.mode, run.output)
  BY <1>2, <1>6, <1>8, MeansOwner
<1>9. CASE t \in active
  <2>1. PICK m \in DOMAIN offers : t = offers[m]
    BY <1>9 DEF ActiveFrontend
  <2>2. t \in tools /\ t.kind = "agui" /\ n \in {Canonical(tools, t)} \cup Aliases(tools, t)
    BY <1>4, <1>9, <2>1 DEF ActiveFrontend
  <2>3. t \in Real(R)
    BY <1>2, <2>2
  <2>4. Owns(R, t, n)
    BY <1>2, <2>2, <2>3, CanonicalOwned
  <2> QED
    BY <1>2, <2>3, <2>4, MeansOwner
<1>10. CASE ~ known /\ t \in FindTool(run.pod, McpName(found, n))
  <2>1. /\ t \in Real(R) /\ t.kind = "mcp" /\ t.given = McpName(found, n)
    BY <1>5, <1>10 DEF FindTool
  <2>2. CASE found = {}
    <3>1. t.given = n
      BY <2>1, <2>2 DEF McpName
    <3>2. ~ IsFrontend(n, R)
      <4> SUFFICES ASSUME NEW u \in R, n \in {u.base, u.given} PROVE FALSE
        BY DEF IsFrontend
      <4>1. u \in tools /\ u.kind = "agui"
        BY <1>2 DEF Record, FrontendTool, Tool
      <4>2. n \in Aliases(tools, u) \/ n = Canonical(tools, u)
        BY <4>1 DEF Aliases
      <4> QED
        BY <1>3, <1>4, <2>2, <4>1, <4>2
    <3>3. Owns(R, t, n)
      BY <2>1, <3>1, <3>2 DEF Owns
    <3> QED
      BY <1>2, <2>1, <3>3, MeansOwner
  <2>3. CASE found # {}
    <3>1. PICK x \in tools :
            /\ found = {x}
            /\ x.owner # "stored" => x = meaning[n]
            /\ x.owner = "stored" => meaning[n] = meaning[x.given]
      BY <1>3, <2>3
    <3>2. x.kind = "mcp" /\ t.given = x.given
      <4>1. (CHOOSE y \in {x} : TRUE) = x
        OBVIOUS
      <4>2. McpName(found, n) = x.given
        BY <3>1, <4>1 DEF McpName
      <4>3. x.kind = "mcp"
        <5>1. x \in found
          BY <3>1
        <5>2. x.kind \notin {"local", "agui"}
          BY <1>10, <5>1
        <5> QED
          BY <1>2, <5>2 DEF Kinded
      <4> QED
        BY <2>1, <4>2, <4>3
    <3>3. CASE x \in Real(R) /\ x.owner # "stored"
      <4>1. t = x
        BY <1>2, <2>1, <3>2, <3>3, OneServer
      <4> QED
        BY <3>1, <3>3, <4>1
    <3>4. CASE x.owner = "stored" /\ Storable(R, x.given)
      <4>1. PICK m : m = x.given
        OBVIOUS
      <4>2. Owns(R, t, m) /\ m \in DOMAIN meaning
        BY <2>1, <3>2, <3>4, <4>1 DEF Owns, Storable
      <4>3. meaning[m] = t
        BY <1>2, <2>1, <4>2, MeansOwner
      <4> QED
        BY <3>1, <3>4, <4>1, <4>3
    <3> QED
      BY <1>2, <3>1, <3>3, <3>4
  <2> QED
    BY <2>2, <2>3
<1> QED
  BY <1>1, <1>7, <1>8, <1>9, <1>10 DEF Reaches

\* A tool that is offered is reached: a built-in or client one always, a server's
\* if the pod has that server and the name stored for it was its own.
LEMMA Reached ==
  ASSUME PlainNames, Sound, run.status = "running", NEW n \in DOMAIN run.offers,
         meaning[n].kind = "mcp" => meaning[n].owner \in live[run.pod],
         run.offers[n].owner = "stored" => meaning[run.offers[n].given].given = run.offers[n].given
  PROVE  meaning[n] \in Reaches(n)
<1>1. PICK R, tools, offers : R = run.records /\ tools = run.tools /\ offers = run.offers
  OBVIOUS
<1> DEFINE found == Resolved(tools, offers, n)
           active == ActiveFrontend(tools, offers, n)
<1>2. /\ configured \subseteq Server /\ R \subseteq Record /\ R \subseteq tools /\ Meanings(R)
      /\ Kinded(tools)
      /\ \A t \in tools :
           \/ t \in Real(R) /\ t.owner # "stored"
           \/ /\ t.kind = "mcp" /\ t.owner = "stored" /\ t = Stored(t.given)
              /\ t.given \in Seq(Part) /\ Storable(R, t.given)
  BY <1>1, SegmentTools
<1>3. n \in DOMAIN meaning /\ n \in DOMAIN offers /\ found = {offers[n]}
  BY <1>1 DEF Sound, Segmented, Resolved
<1>4. PICK x \in tools : x = offers[n] /\ found = {x}
  <2>1. offers = Offers(tools)
    BY <1>1 DEF Sound, Segmented
  <2> QED
    BY <1>2, <1>3, <2>1, Offered
<1>5. meaning[n] = IF x.owner = "stored" THEN meaning[x.given] ELSE x
  BY <1>1, <1>3, <1>4 DEF Sound, Segmented, Meant
<1>6. CASE x.kind = "local"
  <2>1. meaning[n] = x
    BY <1>2, <1>5, <1>6
  <2>2. PICK b \in Local \ (Blocked(run.mode) \cup Unbound(run.output)) : x = LocalTool(b)
    BY <1>1, <1>4, <1>6 DEF Sound, Segmented, Bound
  <2>3. x \in RunLocal(x.given, run.mode, run.output)
    BY <2>2 DEF RunLocal
  <2>4. Reaches(n) = UNION {IF t.kind = "local" THEN RunLocal(t.given, run.mode, run.output)
                            ELSE {t} : t \in found}
    BY <1>1, <1>4, <1>6 DEF Reaches
  <2> QED
    BY <1>4, <1>6, <2>1, <2>3, <2>4
<1>7. CASE x.kind = "agui"
  <2>1. meaning[n] = x
    BY <1>2, <1>5, <1>7
  <2>2. Reaches(n) = UNION {IF t.kind = "local" THEN RunLocal(t.given, run.mode, run.output)
                            ELSE {t} : t \in found}
    BY <1>1, <1>4, <1>7 DEF Reaches
  <2> QED
    BY <1>4, <1>7, <2>1, <2>2
<1>8. CASE x.kind = "mcp"
  <2>1. PICK u : u = meaning[n]
    OBVIOUS
  <2>2. u \in Real(R) /\ u.kind = "mcp" /\ u.given = x.given
    <3>1. CASE x.owner # "stored"
      BY <1>2, <1>5, <1>8, <2>1, <3>1
    <3>2. CASE x.owner = "stored"
      <4>1. u \in Real(R) /\ u.given = x.given /\ u = meaning[x.given]
        BY <1>1, <1>2, <1>3, <1>4, <1>5, <2>1, <3>2 DEF Meanings
      <4>2. ~ IsLocal(u.given) /\ ~ IsFrontend(u.given, R)
        BY <1>2, <1>4, <3>2, <4>1 DEF Storable
      <4>3. u \notin R /\ u \notin BuiltIns
        BY <4>2 DEF IsLocal, IsFrontend, BuiltIns
      <4>4. u \in FetchedTools(configured)
        BY <4>1, <4>3 DEF Real
      <4>5. \A v \in FetchedTools(configured) : v.kind = "mcp"
        BY DEF FetchedTools, Lists, Tool
      <4> QED
        BY <4>1, <4>4, <4>5
    <3> QED
      BY <3>1, <3>2
  <2>3. ~ IsLocal(n)
    <3> SUFFICES ASSUME NEW b \in Local, LocalTool(b).given = n PROVE FALSE
      BY DEF IsLocal
    <3>1. /\ LocalTool(b) \in Real(R) /\ Owns(R, LocalTool(b), n) /\ LocalTool(b).kind = "local"
      BY DEF Real, BuiltIns, Owns, LocalTool, Tool
    <3>2. PICK t : t = LocalTool(b)
      OBVIOUS
    <3>3. meaning[n] = t
      BY <1>2, <1>3, <3>1, <3>2, MeansOwner
    <3> QED
      BY <2>1, <2>2, <3>1, <3>2, <3>3
  <2>4. x.kind \notin {"local", "agui"}
    BY <1>8
  <2>5. active = {}
    <3> SUFFICES ASSUME NEW t \in active PROVE FALSE
      OBVIOUS
    <3>1. t.kind = "agui"
      BY DEF ActiveFrontend
    <3>2. Reaches(n) = active
      BY <1>1, <1>4, <2>3, <2>4 DEF Reaches
    <3>3. t = meaning[n]
      BY <1>3, <3>2, Reaching
    <3> QED
      BY <2>1, <2>2, <3>1, <3>3
  <2>6. Reaches(n) = FindTool(run.pod, McpName(found, n))
    BY <1>1, <1>4, <2>3, <2>4, <2>5 DEF Reaches
  <2>7. McpName(found, n) = x.given
    <3>1. (CHOOSE y \in {x} : TRUE) = x
      OBVIOUS
    <3> QED
      BY <1>4, <3>1 DEF McpName
  <2>8. u \in Lists(u.owner)
    <3>1. u = Tool("mcp", u.owner, u.base, u.given) /\ Sorted(R, u)
      BY <1>2, <2>2, RealTool
    <3> QED
      BY <2>2, <3>1 DEF Sorted, Lists
  <2>9. u \in FindTool(run.pod, x.given)
    BY <2>1, <2>2, <2>8 DEF FindTool, FetchedTools
  <2> QED
    BY <2>1, <2>6, <2>7, <2>9
<1> QED
  BY <1>2, <1>6, <1>7, <1>8 DEF Kinded

----------------------------------------------------------------------------
(* The steps.                                                              *)

Inv == Sound /\ Answered /\ RightTool /\ OfferedRuns

\* What a registry offers is remembered: no name changes its meaning, and each
\* name offered means the tool it is offered for.
LEMMA Remembering ==
  ASSUME PlainNames, configured \subseteq Server, NEW R, R \subseteq Record, Meanings(R),
         NEW tools, R \subseteq tools,
         \A t \in tools :
           \/ t \in Real(R)
           \/ \E m \in DOMAIN meaning : Storable(R, m) /\ t = Stored(m),
         meaning' = Remembers(tools), configured' = configured, NEW offers, offers = Offers(tools)
  PROVE  /\ Meanings(R)'
         /\ \A n \in DOMAIN meaning : n \in DOMAIN meaning' /\ meaning'[n] = meaning[n]
         /\ DOMAIN meaning' = DOMAIN meaning \cup DOMAIN offers
         /\ Meant(offers)'
<1>1. offers = Offers(tools)
  OBVIOUS
<1>2. /\ DOMAIN meaning' = DOMAIN meaning \cup DOMAIN offers
      /\ \A n \in DOMAIN meaning : n \in DOMAIN meaning' /\ meaning'[n] = meaning[n]
      /\ \A n \in DOMAIN offers :
           n \notin DOMAIN meaning =>
             meaning'[n] = IF offers[n].owner = "stored" THEN meaning[offers[n].given] ELSE offers[n]
  BY <1>1 DEF Remembers
<1>3. ASSUME NEW t \in tools
      PROVE  \/ t \in Real(R) /\ t.owner # "stored" /\ t.kind \in {"mcp", "agui", "local"}
             \/ /\ t.kind = "mcp" /\ t.owner = "stored" /\ t = Stored(t.given)
                /\ t.given \in Seq(Part) /\ t.given \in DOMAIN meaning
  <2>1. CASE t \in Real(R)
    BY <2>1, RealTool DEF Sorted
  <2>2. CASE \E m \in DOMAIN meaning : Storable(R, m) /\ t = Stored(m)
    <3>1. PICK m \in DOMAIN meaning : t = Stored(m)
      BY <2>2
    <3>2. m \in Seq(Part)
      BY DEF Meanings
    <3> QED
      BY <3>1, <3>2 DEF Stored, Tool
  <2> QED
    BY <2>1, <2>2
<1>4. Kinded(tools)
  BY <1>3 DEF Kinded
<1>5. \A n \in DOMAIN offers :
        /\ offers[n] \in tools /\ Canonical(tools, offers[n]) = n
        /\ \A u \in tools : Canonical(tools, u) = n => Rank(u) <= Rank(offers[n])
  BY <1>1, <1>4, Offered
<1>6. \A t : t \in Real(R)' <=> t \in Real(R)
  BY DEF Real, FetchedTools, Lists, LiveName
<1>7. ASSUME NEW n \in DOMAIN offers
      PROVE  /\ n \in Seq(Part) /\ meaning'[n] \in Real(R)
             /\ meaning'[n] = IF offers[n].owner = "stored" THEN meaning'[offers[n].given] ELSE offers[n]
             /\ \/ \E m \in DOMAIN meaning' : n = StoredAlias(m) /\ meaning'[n] = meaning'[m]
                \/ Owns(R, meaning'[n], n)
  <2>1. PICK t \in tools : t = offers[n] /\ n = Canonical(tools, t)
    BY <1>5
  <2>2. CASE t \in Real(R) /\ t.owner # "stored"
    <3>1. Owns(R, t, n)
      <4>1. \A u \in tools : Canonical(tools, u) = Canonical(tools, t) => Rank(u) <= Rank(t)
        BY <1>5, <2>1
      <4>2. \A u \in tools : u \in Real(R) \/ ~ IsFrontend(u.base, R)
        BY DEF Storable, Stored, Tool
      <4> QED
        BY <2>1, <2>2, <4>1, <4>2, CanonicalOwned
    <3>2. n \in Seq(Part)
      BY <2>2, <3>1, OwnedName DEF Gapless
    <3>3. meaning'[n] = t
      <4>1. CASE n \in DOMAIN meaning
        BY <1>2, <2>2, <3>1, <4>1, MeansOwner
      <4>2. CASE n \notin DOMAIN meaning
        BY <1>2, <2>1, <2>2, <4>2
      <4> QED
        BY <4>1, <4>2
    <3> QED
      BY <2>1, <2>2, <3>1, <3>2, <3>3
  <2>3. CASE t.owner = "stored"
    <3>1. PICK m \in DOMAIN meaning : t = Stored(m) /\ m = t.given /\ m \in Seq(Part)
      BY <1>3, <2>3
    <3>2. n \in {m, StoredAlias(m)}
      BY <2>1, <3>1, StoredNames
    <3>3. meaning'[m] = meaning[m] /\ m \in DOMAIN meaning'
      BY <1>2
    <3>4. CASE n = m
      <4>1. /\ n \in Seq(Part) /\ meaning[n] \in Real(R)
            /\ \/ \E o \in DOMAIN meaning : n = StoredAlias(o) /\ meaning[n] = meaning[o]
               \/ Owns(R, meaning[n], n)
        BY <3>1, <3>4 DEF Meanings, Derived
      <4>2. meaning'[n] = meaning[n]
        BY <3>3, <3>4
      <4>3. CASE \E o \in DOMAIN meaning : n = StoredAlias(o) /\ meaning[n] = meaning[o]
        <5>1. PICK o \in DOMAIN meaning : n = StoredAlias(o) /\ meaning[n] = meaning[o]
          BY <4>3
        <5>2. o \in DOMAIN meaning' /\ meaning'[o] = meaning[o]
          BY <1>2
        <5> QED
          BY <2>1, <2>3, <3>1, <3>4, <4>1, <4>2, <5>1, <5>2
      <4>4. CASE Owns(R, meaning[n], n)
        BY <2>1, <2>3, <3>1, <3>4, <4>1, <4>2, <4>4
      <4> QED
        BY <4>1, <4>3, <4>4
    <3>5. CASE n = StoredAlias(m)
      <4>1. n \in Seq(Part)
        BY <3>1, <3>5, AliasTyped, Parts DEF StoredAlias
      <4>2. meaning'[n] = meaning[m]
        <5>1. CASE n \in DOMAIN meaning
          BY <1>2, <3>1, <3>5, <5>1, MeansStored
        <5>2. CASE n \notin DOMAIN meaning
          BY <1>2, <2>1, <2>3, <3>1, <5>2
        <5> QED
          BY <5>1, <5>2
      <4>3. meaning[m] \in Real(R)
        BY DEF Meanings
      <4> QED
        BY <2>1, <2>3, <3>1, <3>3, <3>5, <4>1, <4>2, <4>3
    <3> QED
      BY <3>2, <3>4, <3>5
  <2> QED
    BY <1>3, <2>2, <2>3
<1>8. ASSUME NEW n \in DOMAIN meaning'
      PROVE  /\ n \in Seq(Part) /\ meaning'[n] \in Real(R)
             /\ \/ \E m \in DOMAIN meaning' : n = StoredAlias(m) /\ meaning'[n] = meaning'[m]
                \/ Owns(R, meaning'[n], n)
  <2>1. CASE n \in DOMAIN offers
    BY <1>7, <2>1
  <2>2. CASE n \in DOMAIN meaning
    <3>1. /\ n \in Seq(Part) /\ meaning[n] \in Real(R) /\ meaning'[n] = meaning[n]
          /\ Derived(n) \/ Owns(R, meaning[n], n)
      BY <1>2, <2>2 DEF Meanings
    <3> QED
      BY <1>2, <3>1 DEF Derived
  <2> QED
    BY <1>2, <2>1, <2>2
<1>9. Meanings(R)'
  BY <1>6, <1>8 DEF Meanings, Derived, Owns
<1> QED
  BY <1>1, <1>2, <1>7, <1>9 DEF Meant

\* Before the run, nothing is offered or called.
LEMMA Start == Init => Inv
<1> SUFFICES ASSUME Init PROVE Inv
  OBVIOUS
<1>1. run.status = "none" /\ meaning = <<>> /\ last = NoCall
  BY DEF Init
<1>2. configured \subseteq Server /\ live \in [Pod -> SUBSET configured]
  BY ServerAssumption DEF Init
<1>3. last.offered = {} /\ last.got = {}
  BY <1>1 DEF NoCall
<1> QED
  BY <1>1, <1>2, <1>3 DEF Inv, Sound, Answered, RightTool, OfferedRuns

\* What the pods list is no part of what the names of a segment mean.
LEMMA Unchanged ==
  ASSUME Sound, UNCHANGED <<configured, run, meaning, last>>, live' \in [Pod -> SUBSET configured]
  PROVE  Sound'
<1>1. \A R : Meanings(R) => Meanings(R)'
  <2> SUFFICES ASSUME NEW R, Meanings(R) PROVE Meanings(R)'
    OBVIOUS
  <2> QED
    BY DEF Meanings, Real, FetchedTools, Lists, LiveName, Derived, Owns
<1>2. Segmented => Segmented'
  BY DEF Segmented, Meant, FirstTools, RebuiltTools, Storable, Bound, Real, FetchedTools, Lists, LiveName
<1>3. PICK R : R = run.records
  OBVIOUS
<1>4. R = run'.records
  BY <1>3
<1>5. run.status \in {"running", "paused"} => run'.records \subseteq Record /\ Meanings(R)'
  BY <1>1, <1>3, <1>4 DEF Sound
<1> QED
  BY <1>2, <1>4, <1>5 DEF Sound

\* A listing for another run changes nothing a name means.
LEMMA OtherFetchStep ==
  ASSUME Inv, NEW p \in Pod, NEW answering \in SUBSET configured, OtherFetch(p, answering)
  PROVE  Inv'
<1>1. UNCHANGED <<configured, run, meaning, last>> /\ live' \in [Pod -> SUBSET configured]
  BY DEF OtherFetch, Inv, Sound
<1>2. Sound'
  BY <1>1, Unchanged DEF Inv
<1> QED
  BY <1>1, <1>2 DEF Inv, Answered, RightTool, OfferedRuns, Renamed, Reachable

\* A call of a remembered name reaches what the name means, or nothing.
LEMMA CallStep ==
  ASSUME PlainNames, Inv, NEW n \in DOMAIN meaning, Call(n)
  PROVE  Inv'
<1>1. /\ run.status = "running" /\ Sound /\ UNCHANGED <<configured, live, run, meaning>>
      /\ last' = [name |-> n, got |-> Reaches(n), on |-> live[run.pod],
                  offered |-> IF n \in DOMAIN run.offers THEN {run.offers[n]} ELSE {}]
  BY DEF Call, Inv
<1>2. /\ last'.name = n /\ last'.got = Reaches(n) /\ last'.on = live[run.pod]
      /\ last'.offered = IF n \in DOMAIN run.offers THEN {run.offers[n]} ELSE {}
  BY <1>1
<1>3. Sound'
  <2>1. \A R : Meanings(R) => Meanings(R)'
    <3> SUFFICES ASSUME NEW R, Meanings(R) PROVE Meanings(R)'
      OBVIOUS
    <3> QED
      BY <1>1 DEF Meanings, Real, FetchedTools, Lists, LiveName, Derived, Owns
  <2>2. Segmented'
    BY <1>1 DEF Sound, Segmented, Meant, FirstTools, RebuiltTools, Storable, Bound, Real,
       FetchedTools, Lists, LiveName
  <2>3. PICK R : R = run.records /\ R = run'.records
    BY <1>1
  <2>4. run'.records \subseteq Record /\ Meanings(R)'
    BY <1>1, <2>1, <2>3 DEF Sound
  <2> QED
    BY <1>1, <2>2, <2>3, <2>4 DEF Sound
<1>4. \A t \in Reaches(n) : t = meaning[n]
  BY <1>1, Reaching
<1>5. ASSUME NEW t \in last'.offered
      PROVE  /\ n \in DOMAIN run.offers /\ t = run.offers[n]
             /\ t.owner = "stored" => t.given \in DOMAIN meaning
  <2>1. n \in DOMAIN run.offers /\ t = run.offers[n]
    BY <1>2
  <2>2. t \in run.tools
    <3>1. PICK tools : tools = run.tools
      OBVIOUS
    <3>2. Kinded(tools)
      BY <1>1, <3>1, SegmentTools
    <3>3. run.offers = Offers(tools)
      BY <1>1, <3>1 DEF Sound, Segmented
    <3> QED
      BY <2>1, <3>1, <3>2, <3>3, Offered
  <2>3. PICK R, tools : R = run.records /\ tools = run.tools
    OBVIOUS
  <2>4. t.owner = "stored" => Storable(R, t.given)
    BY <1>1, <2>2, <2>3, SegmentTools
  <2> QED
    BY <2>1, <2>4 DEF Storable
<1>6. Answered'
  BY <1>1, <1>2, <1>5 DEF Answered
<1>7. RightTool'
  BY <1>1, <1>2, <1>4 DEF RightTool
<1>8. OfferedRuns'
  <2> SUFFICES ASSUME NEW t \in last'.offered, Reachable(meaning[n])', ~ Renamed(t)'
               PROVE  Reaches(n) = {meaning[n]}
    BY <1>1, <1>2 DEF OfferedRuns
  <2>1. n \in DOMAIN run.offers /\ t = run.offers[n]
    BY <1>5
  <2>2. meaning[n].kind = "mcp" => meaning[n].owner \in live[run.pod]
    BY <1>1, <1>2 DEF Reachable
  <2>3. t.owner = "stored" => meaning[t.given].given = t.given
    BY <1>1 DEF Renamed
  <2>4. meaning[n] \in Reaches(n)
    BY <1>1, <2>1, <2>2, <2>3, Reached
  <2> QED
    BY <1>4, <2>4
<1> QED
  BY <1>3, <1>6, <1>7, <1>8 DEF Inv

\* A paused run stores the names it offered; nothing is called.
LEMMA PauseStep ==
  ASSUME Inv, Pause
  PROVE  Inv'
<1>1. /\ run.status = "running" /\ Sound /\ UNCHANGED <<configured, live, meaning>> /\ last' = NoCall
      /\ run' = [status |-> "paused", names |-> DOMAIN run.offers,
                 records |-> run.records, mode |-> run.mode]
  BY DEF Pause, Inv
<1>2. PICK R : R = run.records
  OBVIOUS
<1>3. run'.status = "paused" /\ run'.records = R /\ run'.names = DOMAIN run.offers
  BY <1>1, <1>2
<1>4. Meanings(R)'
  <2>1. Meanings(R)
    BY <1>1, <1>2 DEF Sound
  <2> QED
    BY <1>1, <2>1 DEF Meanings, Real, FetchedTools, Lists, LiveName, Derived, Owns
<1>5. Sound'
  BY <1>1, <1>2, <1>3, <1>4 DEF Sound, Segmented
<1>6. last'.offered = {} /\ last'.got = {}
  BY <1>1 DEF NoCall
<1> QED
  BY <1>1, <1>5, <1>6 DEF Inv, Answered, RightTool, OfferedRuns

\* A segment that begins with tools of its own or of remembered names.
LEMMA Begins ==
  ASSUME PlainNames, Inv, run.status # "running", UNCHANGED <<configured, last>>,
         live' \in [Pod -> SUBSET configured],
         NEW p \in Pod, NEW R, R \subseteq Record, Meanings(R), NEW tools, R \subseteq tools,
         NEW mode, NEW output,
         \A t \in tools : t.kind = "local" =>
           \E b \in Local \ (Blocked(mode) \cup Unbound(output)) : t = LocalTool(b),
         \/ tools \subseteq Real(R) /\ meaning = <<>>
         \/ \A t \in tools :
              t \in R \cup BuiltIns \/ \E m \in DOMAIN meaning : Storable(R, m) /\ t = Stored(m),
         run' = Segment(p, tools, R, mode, output), meaning' = Remembers(tools)
  PROVE  Inv'
<1>1. PICK offers : offers = Offers(tools)
  OBVIOUS
<1>2. /\ run'.status = "running" /\ run'.pod = p /\ run'.tools = tools /\ run'.offers = offers
      /\ run'.records = R /\ run'.mode = mode /\ run'.output = output
  BY <1>1 DEF Segment
<1>3. configured \subseteq Server /\ configured' = configured /\ last = NoCall /\ last' = NoCall
  BY DEF Inv, Sound
<1>4. \A t \in tools :
        t \in Real(R) \/ \E m \in DOMAIN meaning : Storable(R, m) /\ t = Stored(m)
  BY DEF Real
<1>5. /\ Meanings(R)'
      /\ \A n \in DOMAIN meaning : n \in DOMAIN meaning' /\ meaning'[n] = meaning[n]
      /\ DOMAIN meaning' = DOMAIN meaning \cup DOMAIN offers
      /\ Meant(offers)'
  <2>1. Meanings(R)' /\ Meant(offers)'
    BY <1>1, <1>3, <1>4, Remembering
  <2>2. \A n \in DOMAIN meaning : n \in DOMAIN meaning' /\ meaning'[n] = meaning[n]
    BY <1>1, <1>3, <1>4, Remembering
  <2>3. DOMAIN meaning' = DOMAIN meaning \cup DOMAIN offers
    BY <1>1, <1>3, <1>4, Remembering
  <2> QED
    BY <2>1, <2>2, <2>3
<1>6. FirstTools(R)' \/ RebuiltTools(R)'
  <2>1. CASE tools \subseteq Real(R) /\ meaning = <<>>
    <3>1. DOMAIN meaning' = DOMAIN offers
      BY <1>5, <2>1
    <3>2. \A t : t \in Real(R)' <=> t \in Real(R)
      BY DEF Real, FetchedTools, Lists, LiveName
    <3> QED
      BY <1>2, <2>1, <3>1, <3>2 DEF FirstTools
  <2>2. CASE \A t \in tools :
               t \in R \cup BuiltIns \/ \E m \in DOMAIN meaning : Storable(R, m) /\ t = Stored(m)
    <3>1. \A m \in DOMAIN meaning : Storable(R, m) => m \in DOMAIN meaning' /\ Storable(R, m)'
      BY <1>5 DEF Storable
    <3> QED
      BY <1>2, <2>2, <3>1 DEF RebuiltTools
  <2> QED
    BY <2>1, <2>2
<1>7. \A t \in run'.tools : t.kind = "local" => Bound(t)'
  BY <1>2 DEF Bound
<1>8. Segmented'
  BY <1>1, <1>2, <1>5, <1>6, <1>7 DEF Segmented, Meant
<1>9. Sound'
  BY <1>2, <1>3, <1>5, <1>8 DEF Inv, Sound
<1>10. last'.offered = {} /\ last'.got = {}
  BY <1>3 DEF NoCall
<1> QED
  BY <1>3, <1>9, <1>10 DEF Inv, Answered, RightTool, OfferedRuns

\* The built-in tools of a segment are bound in it.
LEMMA LocalToolsBound ==
  \A R, mode, output :
    LocalTools(R, mode, output) \subseteq {LocalTool(b) : b \in Local \ (Blocked(mode) \cup Unbound(output))}
BY DEF LocalTools

\* A fresh run's first segment.
LEMMA FreshStep ==
  ASSUME PlainNames, Inv, NEW p \in Pod, NEW answering \in SUBSET configured, NEW output,
         NEW frontend \in SUBSET Frontend, NEW request, NEW mode,
         Fresh(p, answering, frontend, request, mode, output)
  PROVE  Inv'
<1> DEFINE records == {FrontendTool(b) : b \in frontend}
           asked == FetchedTools(answering) \cup records
           chosen == Selected(asked, request)
           tools == Kept(chosen) \cup LocalTools(chosen \cap records, mode, output)
<1>1. /\ run.status = "none" /\ UNCHANGED <<configured, last>>
      /\ live' = [live EXCEPT ![p] = answering]
      /\ \/ run' = [status |-> "over"] /\ UNCHANGED meaning
         \/ run' = Segment(p, tools, chosen \cap records, mode, output) /\ meaning' = Remembers(tools)
  BY DEF Fresh
<1>2. live' \in [Pod -> SUBSET configured] /\ meaning = <<>> /\ last = NoCall
  BY <1>1 DEF Inv, Sound
<1>3. CASE run' = [status |-> "over"] /\ UNCHANGED meaning
  <2>1. run'.status = "over"
    BY <1>3
  <2>2. Sound'
    BY <1>1, <1>2, <1>3, <2>1 DEF Inv, Sound
  <2>3. last'.offered = {} /\ last'.got = {}
    BY <1>1, <1>2 DEF NoCall
  <2> QED
    BY <1>1, <1>2, <2>2, <2>3 DEF Inv, Answered, RightTool, OfferedRuns
<1>4. CASE run' = Segment(p, tools, chosen \cap records, mode, output) /\ meaning' = Remembers(tools)
  <2>1. PICK R, all : R = chosen \cap records /\ all = tools
    OBVIOUS
  <2>2. R \subseteq Record
    BY <2>1 DEF Record
  <2>3. \A t \in FetchedTools(answering) : t.kind = "mcp" /\ t \in FetchedTools(configured)
    BY DEF FetchedTools, Lists, Tool
  <2>4. \A t \in records : t.kind = "agui"
    BY DEF FrontendTool, Tool
  <2>5. chosen \subseteq asked /\ Kept(chosen) \subseteq chosen
    BY DEF Selected, Kept
  <2>6. R \subseteq all
    BY <2>1, <2>4 DEF Kept
  <2>7. \A t \in LocalTools(R, mode, output) : t \in BuiltIns
    BY LocalToolsBound DEF BuiltIns
  <2>8. all \subseteq Real(R)
    BY <2>1, <2>3, <2>5, <2>7 DEF Real
  <2>9. \A t \in all : t.kind = "local" =>
          \E b \in Local \ (Blocked(mode) \cup Unbound(output)) : t = LocalTool(b)
    BY <2>1, <2>3, <2>4, <2>5, LocalToolsBound
  <2>10. Meanings(R)
    BY <1>2 DEF Meanings
  <2>11. run' = Segment(p, all, R, mode, output) /\ meaning' = Remembers(all)
    BY <1>4, <2>1
  <2> HIDE DEF records, asked, chosen, tools
  <2> QED
    BY <1>1, <1>2, <2>2, <2>6, <2>8, <2>9, <2>10, <2>11, Begins
<1> QED
  BY <1>1, <1>3, <1>4

\* The segment of a resumed run, on whichever pod.
LEMMA ResumeStep ==
  ASSUME PlainNames, Inv, NEW p \in Pod, NEW answering \in SUBSET configured, NEW output,
         Resume(p, answering, output)
  PROVE  Inv'
<1>1. PICK R, names, mode : R = run.records /\ names = run.names /\ mode = run.mode
  OBVIOUS
<1>2. PICK tools : tools = StoredTools(names, R) \cup R \cup LocalTools(R, mode, output)
  OBVIOUS
<1>3. /\ run.status = "paused" /\ UNCHANGED <<configured, last>>
      /\ live' = [live EXCEPT ![p] = answering]
      /\ run' = Segment(p, tools, R, mode, output) /\ meaning' = Remembers(tools)
  BY <1>1, <1>2 DEF Resume
<1>4. /\ live' \in [Pod -> SUBSET configured] /\ R \subseteq Record /\ Meanings(R)
      /\ names \subseteq DOMAIN meaning
  BY <1>1, <1>3 DEF Inv, Sound
<1>5. \A t \in StoredTools(names, R) :
        t.kind = "mcp" /\ \E m \in DOMAIN meaning : Storable(R, m) /\ t = Stored(m)
  BY <1>4 DEF StoredTools, Storable, Stored, Tool
<1>6. \A t \in R : t.kind = "agui"
  BY <1>4 DEF Record, FrontendTool, Tool
<1>7. \A t \in tools : t.kind = "local" =>
        \E b \in Local \ (Blocked(mode) \cup Unbound(output)) : t = LocalTool(b)
  BY <1>2, <1>5, <1>6, LocalToolsBound
<1>8. \A t \in tools :
        t \in R \cup BuiltIns \/ \E m \in DOMAIN meaning : Storable(R, m) /\ t = Stored(m)
  BY <1>2, <1>5, LocalToolsBound DEF BuiltIns
<1> QED
  BY <1>2, <1>3, <1>4, <1>7, <1>8, Begins

\* Every step keeps the invariant.
LEMMA Steps == PlainNames /\ Inv /\ [Next]_vars => Inv'
<1> SUFFICES ASSUME PlainNames, Inv, [Next]_vars PROVE Inv'
  OBVIOUS
<1>1. CASE UNCHANGED vars
  <2>1. UNCHANGED <<configured, run, meaning, last, live>>
    BY <1>1 DEF vars
  <2>2. Sound'
    BY <2>1, Unchanged DEF Inv, Sound
  <2> QED
    BY <2>1, <2>2 DEF Inv, Answered, RightTool, OfferedRuns, Renamed, Reachable
<1>2. ASSUME NEW p \in Pod, NEW answering \in SUBSET configured, OtherFetch(p, answering)
      PROVE  Inv'
  BY <1>2, OtherFetchStep
<1>3. ASSUME NEW p \in Pod, NEW answering \in SUBSET configured, NEW output \in BOOLEAN,
             Resume(p, answering, output)
      PROVE  Inv'
  BY <1>3, ResumeStep
<1>4. ASSUME NEW p \in Pod, NEW answering \in SUBSET configured, NEW output \in BOOLEAN,
             NEW frontend \in SUBSET Frontend, NEW request \in Requests, NEW mode \in Mode,
             Fresh(p, answering, frontend, request, mode, output)
      PROVE  Inv'
  BY <1>4, FreshStep
<1>5. ASSUME NEW n \in DOMAIN meaning, Call(n) PROVE Inv'
  BY <1>5, CallStep
<1>6. CASE Pause
  BY <1>6, PauseStep
<1> QED
  BY <1>1, <1>2, <1>3, <1>4, <1>5, <1>6 DEF Next

----------------------------------------------------------------------------
(* The theorems.                                                           *)

\* The inductive invariant, for any number of segments, pods and listings.
LEMMA Invariant ==
  ASSUME PlainNames
  PROVE  Spec => []Inv
<1>1. Inv /\ [Next]_vars => Inv'
  BY Steps
<1> QED
  BY <1>1, Start, PTL DEF Spec

\* tool_hub.py, run_tool: when providers' names are plain, a call is carried out
\* by the tool its name was first offered for, or by none, whatever collides and
\* however often the run is resumed on whichever pod.
THEOREM NamesKeepTheirTool ==
  ASSUME PlainNames
  PROVE  Spec => []RightTool
<1>1. Inv => RightTool
  BY DEF Inv
<1> QED
  BY <1>1, Invariant, PTL

\* tool_hub.py, run_tool: with plain names, an offered tool is reached, in a first
\* segment as in a resumed one, unless its server is missing from the pod's latest
\* listing or its name was stored as a collision alias.
THEOREM OfferedIsReached ==
  ASSUME PlainNames
  PROVE  Spec => []OfferedRuns
<1>1. Inv => OfferedRuns
  BY DEF Inv
<1> QED
  BY <1>1, Invariant, PTL
=============================================================================

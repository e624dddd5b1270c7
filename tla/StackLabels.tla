---------------------------- MODULE StackLabels ----------------------------
(***************************************************************************)
(* The label algebra of the MonitoringStack controller: how the            *)
(* --instance-selector flag is split into a key and a value at start-up    *)
(* (RegisterWithManager, controller.go 74-86), how the child builders      *)
(* label the Prometheus CR and its Service with objectLabels              *)
(* (components.go 407-410, 485-496, 611-617), and how the prometheus-self  *)
(* job of the scrape-config Secret finds that Service by its               *)
(* app.kubernetes.io/name label (components.go 509-530).  podLabels and    *)
(* the pod selectors are left out: no property tells them apart.           *)
(*                                                                         *)
(* Strings are sequences of symbols.  A Go map[string]string is a          *)
(* function from keys to values; a map literal assigns its entries in      *)
(* source order, so a later entry with the same key overwrites an earlier  *)
(* one.  The fixed label keys "app.kubernetes.io/name" and                 *)
(* "app.kubernetes.io/part-of" are one symbol each (NameKey, PartOfKey),   *)
(* so that a selector string can spell them.                               *)
(*                                                                         *)
(* The selector is read once when the process starts and never changes    *)
(* afterwards: the only step is a stuttering one.                          *)
(***************************************************************************)
EXTENDS Sequences, SequencesExt, TLC

CONSTANTS
  Symbols,       \* the symbols selector strings and names are made of
  Sep,           \* "=", the separator strings.Split is called with
  NameKey,       \* "app.kubernetes.io/name"
  PartOfKey,     \* "app.kubernetes.io/part-of"
  PromSuffix,    \* the symbol string "-prometheus"
  StackNames,    \* names of MonitoringStacks of one namespace
  MaxLen         \* longest selector string enumerated

ASSUME Sep \in Symbols /\ {NameKey, PartOfKey} \subseteq Symbols
ASSUME StackNames \subseteq Seq(Symbols \ {Sep})

VARIABLES
  instanceSelector,  \* opts.InstanceSelector, the flag value
  registered         \* RegisterWithManager returned nil

vars == <<instanceSelector, registered>>

Strings == BoundedSeq(Symbols, MaxLen)

(* strings.Split(s, sep): the fields of s between occurrences of sep,      *)
(* always one more field than there are separators (Split("", sep) is      *)
(* [""]).                                                                  *)
RECURSIVE Split(_, _)
Split(s, sep) ==
  LET i == SelectInSeq(s, LAMBDA c : c = sep)
  IN IF i = 0 THEN <<s>>
     ELSE <<SubSeq(s, 1, i - 1)>> \o Split(SubSeq(s, i + 1, Len(s)), sep)

(* RegisterWithManager: split the flag at "=", refuse it unless there are  *)
(* exactly two fields, and keep split[0] and split[1] as the key and value *)
(* handed to every builder.                                                *)
Accepted(s) == Len(Split(s, Sep)) = 2

ParseInstanceSelector(s) ==
  LET split == Split(s, Sep)
  IN [key |-> split[1], value |-> split[2]]

(* The literal with the instance-selector entry written last.             *)
objectLabelsInstanceLast(name, msName, key, value) ==
  (key :> value) @@ (<<PartOfKey>> :> msName) @@ (<<NameKey>> :> name)

(* objectLabels: the literal {instanceSelectorKey: instanceSelectorValue, *)
(* name: name, part-of: msName}.  @@ keeps its left operand's value on a   *)
(* shared key, so the entry written last in the literal is leftmost.       *)
objectLabels(name, msName, key, value) ==
  (<<PartOfKey>> :> msName) @@ (<<NameKey>> :> name) @@ (key :> value)

(* newPrometheus labels the CR with objectLabels(ms.Name, ms.Name, ...);   *)
(* newPrometheusService names the Service ms.Name + "-prometheus" and      *)
(* labels it with objectLabels(name, ms.Name, ...).                        *)
PrometheusLabels(m, sel) == objectLabels(m, m, sel.key, sel.value)

PrometheusServiceName(m) == m \o <<PromSuffix>>

PrometheusServiceLabels(m, sel) ==
  objectLabels(PrometheusServiceName(m), m, sel.key, sel.value)

(* The prometheus-self job's first relabel rule: keep an endpoint only if  *)
(* its Service's app.kubernetes.io/name label matches the anchored regex   *)
(* ms.Name + "-prometheus".  Names here contain no regex metacharacters,   *)
(* so the match is equality; a missing label reads as the empty string.   *)
SelfScrapeRegex(m) == m \o <<PromSuffix>>

SelfScrapeKeeps(m, serviceLabels) ==
  /\ <<NameKey>> \in DOMAIN serviceLabels
  /\ serviceLabels[<<NameKey>>] = SelfScrapeRegex(m)

Init ==
  /\ instanceSelector \in Strings
  /\ registered = Accepted(instanceSelector)

Next == UNCHANGED vars

Spec == Init /\ [][Next]_vars

-----------------------------------------------------------------------------

(* Whatever instance selector the operator was started with, the           *)
(* prometheus-self job of each stack keeps the endpoints of its own         *)
(* Prometheus Service and of no other stack's: the name label objectLabels  *)
(* puts on the Service is the one the scrape-config Secret's regex expects, *)
(* even when the selector key is app.kubernetes.io/name itself.             *)
SelfScrapeFindsOwnService ==
  registered =>
    LET sel == ParseInstanceSelector(instanceSelector)
    IN \A m, m2 \in StackNames :
         SelfScrapeKeeps(m, PrometheusServiceLabels(m2, sel)) <=> m = m2

====

----------------------------- MODULE LayeredStore -----------------------------
(***************************************************************************)
(* What Storage promises a single caller: at every path at which something *)
(* is mounted lie catalogs of volumes, one over the other, and a call is   *)
(* served at once by the uppermost of them that does not fail.             *)
(***************************************************************************)
EXTENDS StoreCalls, SequencesExt

CONSTANTS
  Volumes, Catalogs, Paths, InitialStores,
  Rank(_)     \* the priority of a volume, as a natural number

VARIABLES
  layers,     \* mounted path -> sequence of [volume, catalog], the uppermost first
  stores,     \* volume -> what it stores
  failed,     \* volumes whose device has failed
  clock,      \* the time
  answer      \* what the last call returned

vars == <<layers, stores, failed, clock, answer>>

Answer(call, code, result) == [call |-> call, code |-> code, result |-> result]

Init ==
  /\ layers = [path \in {} |-> <<>>]
  /\ stores \in [Volumes -> InitialStores]
  /\ failed = {}
  /\ clock = 0
  /\ answer = Answer(Nothing, "kSuccess", Nothing)

\* the part of a key that is on the way to a mounted path
OnTheWay(key) ==
  CHOOSE n \in 0 .. Len(key) :
    /\ \E path \in DOMAIN layers \cup {<<>>} : IsPrefix(SubSeq(key, 1, n), path)
    /\ \A m \in n + 1 .. Len(key) :
         \A path \in DOMAIN layers : ~IsPrefix(SubSeq(key, 1, m), path)

LayerOutcomes(call, layer) ==
  DeviceOutcomes(stores[layer.volume], layer.volume \in failed, clock,
                 [call EXCEPT !.key = layer.catalog \o SubSeq(@, OnTheWay(@) + 1, Len(@))])

MayFail(call, layer) == \E outcome \in LayerOutcomes(call, layer) : outcome.code # "kSuccess"

\* the layer serves the call, or the lowest fails to
Take(layer, outcome) == stores' = [stores EXCEPT ![layer.volume] = outcome.store]

Perform(call) ==
  LET path == SubSeq(call.key, 1, OnTheWay(call.key))
  IN  \/ /\ path \notin DOMAIN layers
         /\ answer' = Answer(call, "kCatalogNotFoundError", Nothing)
         /\ UNCHANGED stores
      \/ /\ path \in DOMAIN layers
         /\ \E i \in DOMAIN layers[path] :
              /\ \A j \in 1 .. i - 1 : MayFail(call, layers[path][j])
              /\ \E outcome \in LayerOutcomes(call, layers[path][i]) :
                   /\ Take(layers[path][i], outcome)
                   /\ \/ /\ outcome.code = "kSuccess"
                         /\ answer' = Answer(call, "kSuccess", outcome.result)
                      \/ /\ outcome.code # "kSuccess" /\ i = Len(layers[path])
                         /\ answer' = Answer(call, "kKeyNotFound", Nothing)

\* a value whose date has passed goes when something comes across it
Expire ==
  /\ \E volume \in Volumes : \E key \in DOMAIN stores[volume] :
       /\ HasExpired(stores[volume], key, clock)
       /\ stores' = [stores EXCEPT ![volume] = Without(@, key)]
  /\ UNCHANGED answer

\* under the layers of its rank and of higher ones
Mount(path, layer) ==
  LET old == IF path \in DOMAIN layers THEN layers[path] ELSE <<>>
      n == Cardinality({i \in DOMAIN old : Rank(old[i].volume) >= Rank(layer.volume)})
  IN  /\ \E outcome \in HasCatalogOutcomes(stores[layer.volume], layer.catalog) :
           outcome.code = "kSuccess"
      /\ layers' = [p \in DOMAIN layers \cup {path} |->
                      IF p = path THEN InsertAt(old, n + 1, layer) ELSE layers[p]]

Tick == clock' = clock + 1 /\ UNCHANGED <<layers, stores, failed, answer>>

FailDevice ==
  /\ \E volume \in Volumes : failed' = failed \cup {volume}
  /\ UNCHANGED <<layers, stores, clock, answer>>

Next ==
  \/ /\ \E call \in {c \in Calls : answer'.call = c} : Perform(call)
     /\ UNCHANGED <<layers, failed, clock>>
  \/ Expire /\ UNCHANGED <<layers, failed, clock>>
  \/ /\ \E path \in Paths, volume \in Volumes, catalog \in Catalogs :
          Mount(path, [volume |-> volume, catalog |-> catalog])
     /\ UNCHANGED <<stores, failed, clock, answer>>
  \/ Tick
  \/ FailDevice

Spec == Init /\ [][Next]_vars
=============================================================================

------------------------------ MODULE MCWorld ------------------------------
(* Small instances of World. *)
EXTENDS World

self == 0
op(kind, comp) == [kind |-> kind, ent |-> self, comps |-> {comp}, sys |-> {}]
spawnOp(cs, ss) == [kind |-> "spawn", ent |-> self, comps |-> cs, sys |-> ss]

\* "plan" reads Task and answers on Log; "act" reads Log and stops on a cancel.
mcSystem == {"plan", "act"}
mcUser == {"Task", "Log"}
mcIndex == [s \in mcSystem |-> IF s = "plan" THEN 1 ELSE 2]
mcInclude == [s \in mcSystem |-> IF s = "plan" THEN {"Task"} ELSE {"Log"}]
mcExclude == [s \in mcSystem |-> IF s = "plan" THEN {} ELSE {"Cancelled"}]
mcReducer == {"Log", "AwaitingHuman", "SystemError"}
mcMenu == [s \in mcSystem |->
    IF s = "plan" THEN {op("add", "Log")} ELSE {op("add", "Log"), op("set", "Task")}]
mcSpawnItems == {<<{"Task"}, {}>>}

\* Two writers of the plain component Task, both merging into Log: conflicts,
\* throwing reducers, an unknown name in an invalidate.
twSystem == {"left", "right", "later"}
twRank == <<"left", "right", "later">>
twIndex == [s \in twSystem |-> CHOOSE i \in 1 .. 3 : twRank[i] = s]
twInitial == {"left", "right"}
twInclude == [s \in twSystem |-> IF s = "later" THEN {"Log"} ELSE {"Task"}]
twExclude == [s \in twSystem |-> {}]
twMenu == [s \in twSystem |->
    CASE s = "left" -> {op("set", "Task"), op("add", "Log"), op("remove", "Log")}
      [] s = "right" -> {op("set", "Task"), op("add", "Log"),
            [kind |-> "invalidate", ent |-> self, comps |-> {}, sys |-> {"later"}]}
      [] s = "later" -> {}]

\* "boss" spawns children that bring the system "kid" with them, and may
\* despawn an entity, write to another one, or invalidate.
spSystem == {"boss", "kid"}
spIndex == [s \in spSystem |-> IF s = "boss" THEN 1 ELSE 2]
spInclude == [s \in spSystem |-> IF s = "boss" THEN {"Task"} ELSE {"Log"}]
spExclude == [s \in spSystem |-> IF s = "kid" THEN {"Task"} ELSE {}]
spMenu == [s \in spSystem |->
    IF s = "boss"
    THEN {spawnOp({"Log"}, {"kid"}), op("remove", "Task"),
          [kind |-> "invalidateAll", ent |-> 2, comps |-> {}, sys |-> {}]}
    ELSE {[op("set", "Task") EXCEPT !.ent = 1],
          [kind |-> "despawn", ent |-> self, comps |-> {}, sys |-> {}]}]
=============================================================================

--------------------------- MODULE MCLevelDBParts ---------------------------
(***************************************************************************)
(* What threads, processes and restarts share below the database itself,   *)
(* one part at a time: a behaviour is one of a part, and the variables of  *)
(* the others keep their first values.                                     *)
(***************************************************************************)
EXTENDS MemTable, Arena, TableCache, PosixEnv, Repair, TLC

VARIABLE part
partVars == <<memVars, arenaVars, cacheVars, bgVars, limitVars, lockVars, repairVars, part>>

Parts == {"memtable", "arena", "cache", "background", "limits", "lock", "repair"}

MCHash == [k \in Tables |-> k]

\* logs after and before tables, damaged ones, one of them without an entry left
MCDirectories ==
  {<<"manifest", 4>> :> NoFile @@ <<"log", 5>> :> <<LogRecord(<<4>>, FALSE), LogRecord(<<5, 6>>, TRUE)>>
     @@ <<"log", 7>> :> <<LogRecord(<<7, 8>>, FALSE)>>
     @@ <<"table", 3>> :> TableFile({1, 2}, TRUE) @@ <<"table", 6>> :> TableFile({3}, FALSE),
   <<"manifest", 1>> :> NoFile @@ <<"log", 2>> :> <<>>
     @@ <<"table", 9>> :> TableFile({}, TRUE) @@ <<"table", 3>> :> TableFile({1}, TRUE)}

PartsInit ==
  /\ part \in Parts
  /\ MemInit /\ ArenaInit /\ CacheInit /\ BgInit /\ LimitInit /\ LockInit /\ RepairInit
  /\ (part # "repair" => <<"manifest", 1>> \in DOMAIN dir /\ current = NoFile)

PartsNext ==
  /\ UNCHANGED part
  /\ \/ /\ part = "memtable" /\ MemNext
        /\ UNCHANGED <<arenaVars, cacheVars, bgVars, limitVars, lockVars, repairVars>>
     \/ /\ part = "arena" /\ ArenaNext
        /\ UNCHANGED <<memVars, cacheVars, bgVars, limitVars, lockVars, repairVars>>
     \/ /\ part = "cache" /\ CacheNext
        /\ UNCHANGED <<memVars, arenaVars, bgVars, limitVars, lockVars, repairVars>>
     \/ /\ part = "background" /\ BgNext
        /\ UNCHANGED <<memVars, arenaVars, cacheVars, limitVars, lockVars, repairVars>>
     \/ /\ part = "limits" /\ LimitNext
        /\ UNCHANGED <<memVars, arenaVars, cacheVars, bgVars, lockVars, repairVars>>
     \/ /\ part = "lock" /\ LockNext
        /\ UNCHANGED <<memVars, arenaVars, cacheVars, bgVars, limitVars, repairVars>>
     \/ /\ part = "repair" /\ RepairNext
        /\ UNCHANGED <<memVars, arenaVars, cacheVars, bgVars, limitVars, lockVars>>

PartsSpec == PartsInit /\ [][PartsNext]_partVars /\ BgFairness
=============================================================================

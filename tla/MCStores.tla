------------------------------ MODULE MCStores ------------------------------
(* The modules of what is kept on disk, and of the lock of a conversation,   *)
(* side by side for TLC.  They share no state: a behaviour is one of one of  *)
(* them.  Sets of different modules share model values, so that one          *)
(* permutation serves them all.                                              *)
EXTENDS MemoryStore, KnowledgeBase, Workspace, ConversationLocks, WorkspaceBackup,
        DomainDefinitions, MilvusStore, Compaction, MCReferences, FinalAnswer,
        LineageGraph

CONSTANTS a1, a2, b1, b2, k1, k2, k3, m1, v1

VARIABLE area    \* the module the behaviour is of

mcVars == <<area, memVars, kbVars, migVars, wsVars, lockVars, backupVars,
            domainVars, milvusVars, refVars, compactionVars, answerVars,
            lineageVars>>

MCSeed == [d \in Documents |-> v1]
MCSymmetry == Permutations({a1, a2}) \cup Permutations({b1, b2}) \cup Permutations({k1, k2, k3})

MCSettings == {[trigger |-> 2, keep |-> 1, history |-> 2], [trigger |-> 4, keep |-> 2, history |-> 3]}

MCFact(tool, on, group, role, value) ==
    [tool |-> tool, on |-> on, group |-> group, role |-> role, value |-> value]
MCFindings ==
    {MCFact("table", "d1", "none", "total", 100), MCFact("table", "d1", "g", "value", 60),
     MCFact("stats", "d1", "none", "mean", 10), MCFact("stats", "d2", "none", "mean", 20)}
MCSays(on, group, role, unit, value) ==
    [Plain EXCEPT !.figure = [on |-> on, group |-> group, role |-> role, unit |-> unit, value |-> value]]
MCDrafts ==
    {{}, {Plain}, {Citation}, {[Plain EXCEPT !.denies = TRUE]},
     {MCSays("none", "none", "total", 1, 100), Citation},
     {MCSays("none", "g", "none", 100, 1)}, {MCSays("none", "none", "mean", 1, 10)},
     {MCSays("d1", "none", "mean", 1, 10),
      [MCSays("none", "none", "total", 1, 70) EXCEPT !.cites = TRUE]}}
MCAsked == {[artifacts |-> {}, total |-> t] : t \in BOOLEAN}

MCInit ==
    /\ area \in {"memory", "knowledge", "migrations", "workspace", "locks",
                  "backup", "domain", "milvus", "references", "compaction",
                  "answer", "lineage"}
    /\ MemInit /\ KBInit
    /\ area # "knowledge" => ~bootstrapped
    /\ MigInit
    /\ area # "migrations" => version = 0
    /\ WsInit /\ LocksInit /\ BackupInit /\ DomainInit /\ MilvusInit
    /\ area # "milvus" => lite
    /\ ReferencesInit /\ CompactionInit
    /\ area # "compaction" => settings.keep = 1
    /\ AnswerInit
    /\ area # "answer" => ~request.total
    /\ LineageInit
    /\ area # "lineage" => \A c \in Chats : home[c] = NoRef

MCNext ==
    \/ /\ area = "memory" /\ MemNext
       /\ UNCHANGED <<area, kbVars, migVars, wsVars, lockVars, backupVars,
                       domainVars, milvusVars, refVars, compactionVars,
                       answerVars, lineageVars>>
    \/ /\ area = "knowledge" /\ KBNext
       /\ UNCHANGED <<area, memVars, migVars, wsVars, lockVars, backupVars,
                       domainVars, milvusVars, refVars, compactionVars,
                       answerVars, lineageVars>>
    \/ /\ area = "migrations" /\ MigNext
       /\ UNCHANGED <<area, memVars, kbVars, wsVars, lockVars, backupVars,
                       domainVars, milvusVars, refVars, compactionVars,
                       answerVars, lineageVars>>
    \/ /\ area = "workspace" /\ WsNext
       /\ UNCHANGED <<area, memVars, kbVars, migVars, lockVars, backupVars,
                       domainVars, milvusVars, refVars, compactionVars,
                       answerVars, lineageVars>>
    \/ /\ area = "locks" /\ LocksNext
       /\ UNCHANGED <<area, memVars, kbVars, migVars, wsVars, backupVars,
                       domainVars, milvusVars, refVars, compactionVars,
                       answerVars, lineageVars>>
    \/ /\ area = "backup" /\ BackupNext
       /\ UNCHANGED <<area, memVars, kbVars, migVars, wsVars, lockVars,
                       domainVars, milvusVars, refVars, compactionVars,
                       answerVars, lineageVars>>
    \/ /\ area = "domain" /\ DomainNext
       /\ UNCHANGED <<area, memVars, kbVars, migVars, wsVars, lockVars,
                       backupVars, milvusVars, refVars, compactionVars,
                       answerVars, lineageVars>>
    \/ /\ area = "milvus" /\ MilvusNext
       /\ UNCHANGED <<area, memVars, kbVars, migVars, wsVars, lockVars,
                       backupVars, domainVars, refVars, compactionVars,
                       answerVars, lineageVars>>
    \/ /\ area = "references" /\ ReferencesNext
       /\ UNCHANGED <<area, memVars, kbVars, migVars, wsVars, lockVars,
                       backupVars, domainVars, milvusVars, compactionVars,
                       answerVars, lineageVars>>
    \/ /\ area = "compaction" /\ CompactionNext
       /\ UNCHANGED <<area, memVars, kbVars, migVars, wsVars, lockVars,
                       backupVars, domainVars, milvusVars, refVars, answerVars,
                       lineageVars>>
    \/ /\ area = "answer" /\ AnswerNext
       /\ UNCHANGED <<area, memVars, kbVars, migVars, wsVars, lockVars,
                       backupVars, domainVars, milvusVars, refVars,
                       compactionVars, lineageVars>>
    \/ /\ area = "lineage" /\ LineageNext
       /\ UNCHANGED <<area, memVars, kbVars, migVars, wsVars, lockVars,
                       backupVars, domainVars, milvusVars, refVars,
                       compactionVars, answerVars>>

MCSpec == MCInit /\ [][MCNext]_mcVars

StoresTypeOK ==
    /\ MemTypeOK /\ KBTypeOK /\ MigTypeOK /\ WsTypeOK /\ LocksTypeOK
    /\ BackupTypeOK /\ DomainTypeOK /\ MilvusTypeOK /\ ReferencesTypeOK
    /\ CompactionTypeOK /\ AnswerTypeOK /\ LineageTypeOK
=============================================================================

---------------------------- MODULE TypeOrmSave ----------------------------
(* What Repository.save(entity) of TypeORM 0.3 does to one stored row, the *)
(* way the services under src/src use it.  save() first SELECTs the row by *)
(* primary key, compares every column of the entity with that loaded row,  *)
(* and then UPDATEs the columns that differ, and only those.  The SELECT   *)
(* and the UPDATE are two round trips: the row can change between them.    *)
(* TypeORM is a dependency, so the definition is external to the source.   *)

\* The value one column has after save()'s UPDATE: the entity's value `mine`
\* when it differs from the value `loaded` by save()'s own SELECT, and the
\* value `now` stored at that moment when it does not.
SavedColumn(now, mine, loaded) == IF mine # loaded THEN mine ELSE now
=============================================================================

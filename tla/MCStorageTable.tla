--------------------------- MODULE MCStorageTable ---------------------------
(***************************************************************************)
(* All storages, formats and kinds of nodes: four nodes, two stops.         *)
(***************************************************************************)
EXTENDS StorageTable

AllStores == {"local", "s3", "azure"}
AllKinds == {"table", "incremental", "python", "snapshot", "test", "seed"}
AllFormats == {"delta", "csv", "parquet"}
=============================================================================

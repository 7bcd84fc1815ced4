--------------------------- MODULE MCBackupRestore ---------------------------
EXTENDS BackupRestore
=============================================================================

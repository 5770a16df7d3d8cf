----------------------------- MODULE MCDiskLog -----------------------------
EXTENDS DiskLog
============================================================================

------------------------ MODULE ProvisionProperties ------------------------
(***************************************************************************)
(* What provisioning must guarantee to the driver and to the user.         *)
(***************************************************************************)
EXTENDS Provision

Opened == driver.next = "close"

\* dev_open succeeds only with two whole records, even in the middle of a
\* write and after a run that was killed.
DriverLoadsWholeRecords ==
    Opened => driver.config.status = "complete" /\ driver.matrix.status = "complete"

\* The two records an open driver holds were selected together by one run of
\* the tool: leftovers of an aborted run are never completed by another.
DriverLoadsOnePair ==
    Opened => \E capture \in Captures : \E dll \in {{}} \cup {{v} : v \in Versions} :
                 /\ Complete(driver.config.content) = driver.config
                 /\ SelectedConfigs(capture, dll) = {driver.config.content}
                 /\ Matrices[capture] = {driver.matrix.content}

\* The manifest is a commit record: where it is complete, so are both records,
\* with the contents whose digests it lists.
ManifestVouchesForRecords ==
    directory["manifest"].status = "complete" =>
        \A i \in 1 .. 2 :
            directory[WriteOrder[i]] = Complete(directory["manifest"].content[i])
=============================================================================

------------------------------ MODULE Products ------------------------------
(***************************************************************************)
(* Catalog.API's product table as its editors see it (CatalogController).  *)
(* UpdateProductAsync reads a row without tracking it, compares the price  *)
(* with the one the client sent, and writes the client's whole row.  If    *)
(* the prices differ it logs a ProductPriceChanged event in the            *)
(* transaction that writes the row, and publishes it afterwards.  Of a row *)
(* the model keeps the price.  CreateProductAsync adds a row that nothing  *)
(* refers to yet: here every product is there from the beginning.          *)
(***************************************************************************)
EXTENDS Sequences

CONSTANTS
    Products,
    Prices,
    Deleted,   \* in the place of the price of a product that was deleted
    Editors    \* the HTTP calls to the product table that can run at once

VARIABLES
    price,     \* the Price column of each row
    edit,      \* what each editor's call holds
    log        \* the price changes in Catalog's IntegrationEventLog, in commit order

productsVars == <<price, edit, log>>

PriceChanges == [product : Products, old : Prices, new : Prices]

Idle == [stage |-> "idle"]

Edits == [stage : {"save", "publish"}, product : Products, old : Prices, new : Prices]

ProductsInit ==
    /\ price \in [Products -> Prices]
    /\ edit = [e \in Editors |-> Idle]
    /\ log = <<>>

ProductsTypeOK ==
    /\ price \in [Products -> Prices \cup {Deleted}]
    /\ edit \in [Editors -> Edits \cup {Idle}]
    /\ log \in Seq(PriceChanges)

\* With the prices in the order in which a reader would expect the parameters.
CarelessChange(e) == [product |-> edit[e].product, old |-> edit[e].new, new |-> edit[e].old]

\* The price change an editor is about.
Change(e) == [product |-> edit[e].product, old |-> edit[e].old, new |-> edit[e].new]

ReadProduct(e, p, new) ==
    /\ edit[e] = Idle
    /\ price[p] # Deleted
    /\ edit' = [edit EXCEPT ![e] = [stage |-> "save", product |-> p,
                                    old |-> price[p], new |-> new]]
    /\ UNCHANGED <<price, log>>

\* The row the editor read is still there when it writes.
Saving(e) == edit[e].stage = "save" /\ price[edit[e].product] # Deleted

\* Row and event are written in one transaction.
SavePriceChange(e) ==
    /\ Saving(e)
    /\ edit[e].old # edit[e].new
    /\ price' = [price EXCEPT ![edit[e].product] = edit[e].new]
    /\ log'   = Append(log, Change(e))
    /\ edit'  = [edit EXCEPT ![e].stage = "publish"]

SaveProduct(e) ==
    /\ Saving(e)
    /\ edit[e].old = edit[e].new
    /\ price' = [price EXCEPT ![edit[e].product] = edit[e].new]
    /\ edit'  = [edit EXCEPT ![e] = Idle]
    /\ UNCHANGED log

\* The row is gone: SaveChanges throws and the call fails.
SaveFails(e) ==
    /\ edit[e].stage = "save"
    /\ price[edit[e].product] = Deleted
    /\ edit' = [edit EXCEPT ![e] = Idle]
    /\ UNCHANGED <<price, log>>

PublishPriceChanged(e) ==
    /\ edit[e].stage = "publish"
    /\ edit' = [edit EXCEPT ![e] = Idle]
    /\ UNCHANGED <<price, log>>

DeleteProduct(p) ==
    /\ price[p] # Deleted
    /\ price' = [price EXCEPT ![p] = Deleted]
    /\ UNCHANGED <<edit, log>>
=============================================================================
